---- MODULE Spec2Model ----
(***************************************************************************)
(* Verification model of the Boilermaker Toolbox calculation core:         *)
(* the tax engine (CPP, CPP2, EI, federal and Alberta withholding), the    *)
(* payroll orchestrator built on it with its input validation, and the     *)
(* rigging calculations (angle factor, load distribution, safety factors,  *)
(* geometry validation, complete analysis); and of the useLocalStorage     *)
(* hook that keeps a value of the application in the browser's storage.    *)
(*                                                                         *)
(* Number model.  The TypeScript code computes on IEEE-754 doubles.  Here  *)
(* every amount of money is an exact decimal value measured in cents: an   *)
(* integer where the code's value is a whole number of cents, and an exact *)
(* mixed number  w + n/d  (0 <= n < d) where it is not (the per-period CPP *)
(* exemption 3500/52, a product with a rate before rounding, an annual tax *)
(* before the division by the number of periods).  Rates are integers over *)
(* RATE_DEN.  Math.round is floor(x + 1/2).  All intermediate values stay  *)
(* below 2^31.                                                             *)
(***************************************************************************)
EXTENDS Integers, Sequences, FiniteSets, TLC

VARIABLES pc, req, res, ledger

vars == <<pc, req, res, ledger>>

----------------------------------------------------------------------------
(* Exact arithmetic on amounts in cents *)

Max(a, b) == IF a >= b THEN a ELSE b

Min(a, b) == IF a <= b THEN a ELSE b

\* dollars of the source's constants, in cents
Dollars(x) == x * 100

\* the value w + n/d after carrying n into w, so that 0 <= n < d
Q(w, n, d) == [w |-> w + (n \div d), n |-> n % d, d |-> d]

QInt(x) == [w |-> x, n |-> 0, d |-> 1]

QIsInt(q) == q.n = 0

\* a common denominator of two mixed numbers
CommonDen(d1, d2) ==
  IF d1 % d2 = 0 THEN d1 ELSE IF d2 % d1 = 0 THEN d2 ELSE d1 * d2

QAdd(a, b) ==
  LET d == CommonDen(a.d, b.d)
  IN  Q(a.w + b.w, a.n * (d \div a.d) + b.n * (d \div b.d), d)

QSub(a, b) ==
  LET d == CommonDen(a.d, b.d)
  IN  Q(a.w - b.w, a.n * (d \div a.d) - b.n * (d \div b.d), d)

\* x * num / den for an integer x, exactly
QScale(x, num, den) ==
  Q(num * (x \div den), num * (x % den), den)

\* q * num / den for a mixed number q, exactly
QTimes(q, num, den) ==
  QAdd(QScale(q.w, num, den), Q(0, num * q.n, q.d * den))

\* q <= k for an integer k
QLeInt(q, k) == q.w < k \/ (q.w = k /\ q.n = 0)

\* Math.min(q, k) for an integer k
QMinInt(q, k) == IF QLeInt(q, k) THEN q ELSE QInt(k)

\* Math.max(0, q)
QMax0(q) == IF q.w >= 0 THEN q ELSE QInt(0)

\* Math.round(q / p) for a positive integer p: floor(q/p + 1/2)
QRoundDiv(q, p) == (2 * q.w + p + ((2 * q.n) \div q.d)) \div (2 * p)

\* round2 on an amount in cents: Math.round(value * 100) / 100
round2(q) == QRoundDiv(q, 1)

----------------------------------------------------------------------------
(* TAX_CONSTANTS_2025, amounts in dollars as in the source *)

RATE_DEN == 10000

YMPE == 71300
YAMPE == 81200
CPP_RATE == 595
CPP2_RATE == 400
CPP_BASIC_EXEMPTION == 3500

EI_MIE == 65700
EI_RATE == 164

FEDERAL_BRACKETS == <<57375, 114750, 177882, 253414>>
FEDERAL_RATES_JAN == <<1500, 2050, 2600, 2900, 3300>>
FEDERAL_RATES_JUL == <<1400, 2050, 2600, 2900, 3300>>

AB_BRACKETS == <<60000, 151234, 181481, 241974, 362961>>
AB_RATES_JAN == <<1000, 1000, 1200, 1300, 1400, 1500>>
\* AB_RATES_JUL without the cut of the lowest rate
AB_RATES_JUL_Uncut == <<1000, 1000, 1200, 1300, 1400, 1500>>

AB_RATES_JUL == <<600, 1000, 1200, 1300, 1400, 1500>>

FEDERAL_BPA_MAX == 16129
FEDERAL_BPA_MIN == 14538
FEDERAL_BPA_THRESHOLD_LOW == 177882
FEDERAL_BPA_THRESHOLD_HIGH == 253414
CANADA_EMPLOYMENT_AMOUNT == 1471
AB_BPA == 22323

\* PAY_FREQUENCY_CONFIG[frequency].periods
PAY_FREQUENCY_CONFIG ==
  [weekly |-> 52, biweekly |-> 26, semimonthly |-> 24, monthly |-> 12]

\* the upper end of the last bracket
Infinity == 2147483647

----------------------------------------------------------------------------
(* Tax engine *)

\* cppBaseExemptionPerPay: CPP_BASIC_EXEMPTION / periodsPerYear
cppBaseExemptionPerPay(periodsPerYear) ==
  QScale(Dollars(CPP_BASIC_EXEMPTION), 1, periodsPerYear)

\* cppRoom with the basic exemption left out of the annual maximum
cppRoom_WithoutExemption(ytdPensionable) ==
  Max(0, Dollars(YMPE) - ytdPensionable)

\* cppRoom: the CPP1 room left in the year
cppRoom(ytdPensionable) ==
  Max(0, Dollars(YMPE - CPP_BASIC_EXEMPTION) - ytdPensionable)

\* cppPensionableThisPay without the cap at the room left in the year
cppPensionableThisPay_Uncapped(pensionableEarnings, ytdPensionable, periodsPerYear) ==
  QMax0(QSub(QInt(Max(0, pensionableEarnings)),
             cppBaseExemptionPerPay(periodsPerYear)))

\* cppPensionableThisPay: the CPP1 base of the period (an exact amount)
cppPensionableThisPay(pensionableEarnings, ytdPensionable, periodsPerYear) ==
  LET pensionableThisPay == Max(0, pensionableEarnings)
  IN  QMax0(QMinInt(QSub(QInt(pensionableThisPay),
                         cppBaseExemptionPerPay(periodsPerYear)),
                    cppRoom(ytdPensionable)))

\* cpp2Room: the CPP2 room left in the year
cpp2Room(ytdPensionable) ==
  Max(0, Dollars(YAMPE - YMPE)
           - (IF ytdPensionable > Dollars(YMPE)
              THEN Min(ytdPensionable, Dollars(YAMPE)) - Dollars(YMPE)
              ELSE 0))

\* cpp2Base taking the whole pay of a period that ends above the YMPE
cpp2Base_WholePay(pensionableEarnings, ytdPensionable) ==
  IF ytdPensionable + Max(0, pensionableEarnings) > Dollars(YMPE)
  THEN Min(Max(0, pensionableEarnings), cpp2Room(ytdPensionable))
  ELSE 0

\* cpp2Base: the CPP2 base of the period
cpp2Base(pensionableEarnings, ytdPensionable) ==
  LET pensionableThisPay == Max(0, pensionableEarnings)
      pensionableAfterThisPay ==
        Min(ytdPensionable + pensionableThisPay, Dollars(YAMPE))
      aboveYMPEBefore ==
        Max(0, Min(ytdPensionable, Dollars(YAMPE)) - Dollars(YMPE))
      aboveYMPEAfter == Max(0, pensionableAfterThisPay - Dollars(YMPE))
      cpp2BaseThisPay == Max(0, aboveYMPEAfter - aboveYMPEBefore)
  IN  Min(cpp2BaseThisPay, cpp2Room(ytdPensionable))

\* the CPPResult returned by calculateCPP for the two bases of the period
CPPResult(base1, base2) ==
  [cpp1 |-> round2(QTimes(base1, CPP_RATE, RATE_DEN)),
   cpp2 |-> round2(QScale(base2, CPP2_RATE, RATE_DEN)),
   pensionableEarnings |-> base1,
   cpp2Base |-> base2]

\* calculateCPP: pensionableEarnings and ytdPensionable in cents
calculateCPP(pensionableEarnings, ytdPensionable, periodsPerYear) ==
  CPPResult(cppPensionableThisPay(pensionableEarnings, ytdPensionable,
                                  periodsPerYear),
            cpp2Base(pensionableEarnings, ytdPensionable))

\* eiRoom without the floor at 0
eiRoom_Unfloored(ytdInsurable) == Dollars(EI_MIE) - ytdInsurable

\* eiRoom measured against the YMPE
eiRoom_ToYMPE(ytdInsurable) == Max(0, Dollars(YMPE) - ytdInsurable)

\* eiRoom: the insurable room left in the year
eiRoom(ytdInsurable) == Max(0, Dollars(EI_MIE) - ytdInsurable)

\* eiBase without the cap at the room left
eiBase_Uncapped(insurableEarnings, ytdInsurable) ==
  Max(0, insurableEarnings)

\* eiBase: the insurable earnings of the period
eiBase(insurableEarnings, ytdInsurable) ==
  LET insurableThisPay == Max(0, insurableEarnings)
  IN  Min(insurableThisPay, eiRoom(ytdInsurable))

\* the EIResult returned by calculateEI for the insurable base of the period
EIResult(base) ==
  [ei |-> round2(QScale(base, EI_RATE, RATE_DEN)),
   insurableEarnings |-> base]

\* calculateEI: insurableEarnings and ytdInsurable in cents
calculateEI(insurableEarnings, ytdInsurable, periodsPerYear) ==
  EIResult(eiBase(insurableEarnings, ytdInsurable))

\* the bracket loop of calculateProgressiveTax from bracket i on
RECURSIVE ProgressiveFrom(_, _, _, _, _, _)
ProgressiveFrom(annualIncome, brackets, rates, i, tax, lastThreshold) ==
  IF i > Len(brackets)
  THEN tax
  ELSE LET upperThreshold == brackets[i]
           rate == rates[i]
           taxableInBracket ==
             Max(0, Min(annualIncome, upperThreshold) - lastThreshold)
       IN  IF taxableInBracket <= 0
           THEN tax
           ELSE ProgressiveFrom(annualIncome, brackets, rates, i + 1,
                  QAdd(tax, QScale(taxableInBracket, rate, RATE_DEN)),
                  upperThreshold)

\* calculateProgressiveTax: annualIncome in cents, thresholds in dollars
calculateProgressiveTax(annualIncome, thresholds, rates) ==
  LET brackets ==
        [i \in 1..Len(thresholds) |-> Dollars(thresholds[i])] \o <<Infinity>>
  IN  ProgressiveFrom(annualIncome, brackets, rates, 1, QInt(0), 0)

\* calculateFederalBPA with the two ends of the phase-out exchanged
calculateFederalBPA_EndsSwapped(annualIncome) ==
  IF annualIncome <= Dollars(FEDERAL_BPA_THRESHOLD_LOW)
  THEN QInt(Dollars(FEDERAL_BPA_MIN))
  ELSE IF annualIncome >= Dollars(FEDERAL_BPA_THRESHOLD_HIGH)
  THEN QInt(Dollars(FEDERAL_BPA_MAX))
  ELSE QAdd(QInt(Dollars(FEDERAL_BPA_MIN)),
            QScale(Dollars(FEDERAL_BPA_THRESHOLD_HIGH) - annualIncome,
                   FEDERAL_BPA_MAX - FEDERAL_BPA_MIN,
                   FEDERAL_BPA_THRESHOLD_HIGH - FEDERAL_BPA_THRESHOLD_LOW))

\* calculateFederalBPA: annualIncome in cents, result an exact amount in cents
calculateFederalBPA(annualIncome) ==
  IF annualIncome <= Dollars(FEDERAL_BPA_THRESHOLD_LOW)
  THEN QInt(Dollars(FEDERAL_BPA_MAX))
  ELSE IF annualIncome >= Dollars(FEDERAL_BPA_THRESHOLD_HIGH)
  THEN QInt(Dollars(FEDERAL_BPA_MIN))
  ELSE QAdd(QInt(Dollars(FEDERAL_BPA_MIN)),
            QScale(Dollars(FEDERAL_BPA_THRESHOLD_HIGH) - annualIncome,
                   FEDERAL_BPA_MAX - FEDERAL_BPA_MIN,
                   FEDERAL_BPA_THRESHOLD_HIGH - FEDERAL_BPA_THRESHOLD_LOW))

\* days in the months of a year
DaysInMonth(year, month) ==
  IF month = 2
  THEN (IF (year % 4 = 0 /\ year % 100 # 0) \/ year % 400 = 0 THEN 29 ELSE 28)
  ELSE IF month \in {4, 6, 9, 11} THEN 30 ELSE 31

RECURSIVE DaysBeforeMonth(_, _)
DaysBeforeMonth(year, month) ==
  IF month = 1 THEN 0
  ELSE DaysBeforeMonth(year, month - 1) + DaysInMonth(year, month - 1)

\* new Date(payDate + 'T00:00:00'): the local midnight of a calendar date
\* [year, month, day], as a count of days (both sides of the comparison in
\* calculateIncomeTax are local midnights, so the order of two of them is
\* the order of their day counts)
DateAtMidnight(payDate) ==
  LET y == payDate.year - 1
  IN  365 * y + (y \div 4) - (y \div 100) + (y \div 400)
        + DaysBeforeMonth(payDate.year, payDate.month) + payDate.day

\* new Date('2025-07-01T00:00:00')
RateChangeDate == [year |-> 2025, month |-> 7, day |-> 1]

\* isJulyOrLater with a strict comparison
isJulyOrLater_Strict(payDate) ==
  DateAtMidnight(payDate) > DateAtMidnight(RateChangeDate)

isJulyOrLater(payDate) ==
  DateAtMidnight(payDate) >= DateAtMidnight(RateChangeDate)

\* calculateIncomeTax: taxableIncome in cents (may be negative)
calculateIncomeTax(taxableIncome, payDate, province, periodsPerYear) ==
  LET annualizedIncome == taxableIncome * periodsPerYear
      federalRates ==
        IF isJulyOrLater(payDate) THEN FEDERAL_RATES_JUL ELSE FEDERAL_RATES_JAN
      federalCreditRate == federalRates[1]
      federalBPA == calculateFederalBPA(annualizedIncome)
      federalBeforeCredits ==
        calculateProgressiveTax(annualizedIncome, FEDERAL_BRACKETS, federalRates)
      federalCredits ==
        QTimes(QAdd(federalBPA, QInt(Dollars(CANADA_EMPLOYMENT_AMOUNT))),
               federalCreditRate, RATE_DEN)
      federalAnnual == QMax0(QSub(federalBeforeCredits, federalCredits))
      albertaRates ==
        IF isJulyOrLater(payDate) THEN AB_RATES_JUL ELSE AB_RATES_JAN
      albertaCreditRate == albertaRates[1]
      albertaBeforeCredits ==
        calculateProgressiveTax(annualizedIncome, AB_BRACKETS, albertaRates)
      albertaCredits == QScale(Dollars(AB_BPA), albertaCreditRate, RATE_DEN)
      provincialAnnual ==
        IF province = "AB"
        THEN QMax0(QSub(albertaBeforeCredits, albertaCredits))
        ELSE QInt(0)
      federal == QRoundDiv(federalAnnual, periodsPerYear)
      provincial == QRoundDiv(provincialAnnual, periodsPerYear)
  IN  [federal |-> federal,
       provincial |-> provincial,
       taxableIncome |-> taxableIncome,
       annualizedIncome |-> annualizedIncome]

\* the value returned by calculateStatutoryDeductions for the three results
StatutoryResult(cppResult, eiResult, taxResult) ==
  [cpp |-> cppResult,
   ei |-> eiResult,
   tax |-> taxResult,
   totalStatutory |->
     cppResult.cpp1 + cppResult.cpp2 + eiResult.ei
       + taxResult.federal + taxResult.provincial]

\* calculateStatutoryDeductions with CPP and EI computed after the RRSP
calculateStatutoryDeductions_AfterRrsp(grossWage, ytdPensionable, ytdInsurable, payDate, province, periodsPerYear, rrspAtSource) ==
  StatutoryResult(
    calculateCPP(Max(0, grossWage - rrspAtSource), ytdPensionable,
                 periodsPerYear),
    calculateEI(Max(0, grossWage - rrspAtSource), ytdInsurable,
                periodsPerYear),
    calculateIncomeTax(Max(0, grossWage - rrspAtSource), payDate, province,
                       periodsPerYear))

\* calculateStatutoryDeductions: amounts in cents
calculateStatutoryDeductions(grossWage, ytdPensionable, ytdInsurable, payDate, province, periodsPerYear, rrspAtSource) ==
  StatutoryResult(
    calculateCPP(grossWage, ytdPensionable, periodsPerYear),
    calculateEI(grossWage, ytdInsurable, periodsPerYear),
    calculateIncomeTax(Max(0, grossWage - rrspAtSource), payDate, province,
                       periodsPerYear))

----------------------------------------------------------------------------
(* Payroll orchestrator.  Rates and amounts are in cents, hours in          *)
(* quarters of an hour, percentages in hundredths of a percent.             *)

HOUR_DEN == 4

PERCENT_DEN == 100

\* calculateGrossPay with shiftPremiumPay added to the wage a second time
calculateGrossPay_PremiumTwice(inputs) ==
  LET rate == inputs.rate
      shiftPremium == inputs.shiftPremium
      straightTimePay ==
        round2(QScale(rate + shiftPremium, inputs.straightTime, HOUR_DEN))
      overtimeHalfPay ==
        round2(QTimes(QAdd(QScale(rate, 15, 10), QInt(shiftPremium)),
                      inputs.overtimeHalf, HOUR_DEN))
      overtimeDoublePay ==
        round2(QScale(rate * 2 + shiftPremium, inputs.overtimeDouble,
                      HOUR_DEN))
      shiftPremiumPay ==
        round2(QScale(shiftPremium,
                      inputs.straightTime + inputs.overtimeHalf
                        + inputs.overtimeDouble,
                      HOUR_DEN))
      travelPay == round2(QScale(inputs.travelRate, inputs.travelHours,
                                 HOUR_DEN))
      allowances == round2(QInt(inputs.perDiem * inputs.days))
      wage ==
        round2(QInt(straightTimePay + overtimeHalfPay + overtimeDoublePay
                      + shiftPremiumPay + travelPay))
      total == round2(QInt(wage + allowances))
  IN  [straightTimePay |-> straightTimePay,
       overtimeHalfPay |-> overtimeHalfPay,
       overtimeDoublePay |-> overtimeDoublePay,
       shiftPremiumPay |-> shiftPremiumPay,
       travelPay |-> travelPay,
       wage |-> wage,
       allowances |-> allowances,
       total |-> total]

\* calculateGrossPay with the allowances counted in the taxable wage
calculateGrossPay_TaxableAllowances(inputs) ==
  LET rate == inputs.rate
      shiftPremium == inputs.shiftPremium
      straightTimePay ==
        round2(QScale(rate + shiftPremium, inputs.straightTime, HOUR_DEN))
      overtimeHalfPay ==
        round2(QTimes(QAdd(QScale(rate, 15, 10), QInt(shiftPremium)),
                      inputs.overtimeHalf, HOUR_DEN))
      overtimeDoublePay ==
        round2(QScale(rate * 2 + shiftPremium, inputs.overtimeDouble,
                      HOUR_DEN))
      shiftPremiumPay ==
        round2(QScale(shiftPremium,
                      inputs.straightTime + inputs.overtimeHalf
                        + inputs.overtimeDouble,
                      HOUR_DEN))
      travelPay == round2(QScale(inputs.travelRate, inputs.travelHours,
                                 HOUR_DEN))
      allowances == round2(QInt(inputs.perDiem * inputs.days))
      wage ==
        round2(QInt(straightTimePay + overtimeHalfPay + overtimeDoublePay
                      + travelPay + allowances))
      total == round2(QInt(wage))
  IN  [straightTimePay |-> straightTimePay,
       overtimeHalfPay |-> overtimeHalfPay,
       overtimeDoublePay |-> overtimeDoublePay,
       shiftPremiumPay |-> shiftPremiumPay,
       travelPay |-> travelPay,
       wage |-> wage,
       allowances |-> allowances,
       total |-> total]

\* calculateGrossPay
calculateGrossPay(inputs) ==
  LET rate == inputs.rate
      shiftPremium == inputs.shiftPremium
      straightTimePay ==
        round2(QScale(rate + shiftPremium, inputs.straightTime, HOUR_DEN))
      overtimeHalfPay ==
        round2(QTimes(QAdd(QScale(rate, 15, 10), QInt(shiftPremium)),
                      inputs.overtimeHalf, HOUR_DEN))
      overtimeDoublePay ==
        round2(QScale(rate * 2 + shiftPremium, inputs.overtimeDouble,
                      HOUR_DEN))
      shiftPremiumPay ==
        round2(QScale(shiftPremium,
                      inputs.straightTime + inputs.overtimeHalf
                        + inputs.overtimeDouble,
                      HOUR_DEN))
      travelPay == round2(QScale(inputs.travelRate, inputs.travelHours,
                                 HOUR_DEN))
      allowances == round2(QInt(inputs.perDiem * inputs.days))
      wage ==
        round2(QInt(straightTimePay + overtimeHalfPay + overtimeDoublePay
                      + travelPay))
      total == round2(QInt(wage + allowances))
  IN  [straightTimePay |-> straightTimePay,
       overtimeHalfPay |-> overtimeHalfPay,
       overtimeDoublePay |-> overtimeDoublePay,
       shiftPremiumPay |-> shiftPremiumPay,
       travelPay |-> travelPay,
       wage |-> wage,
       allowances |-> allowances,
       total |-> total]

\* calculateVoluntaryDeductions
calculateVoluntaryDeductions(grossWage, deductionInputs) ==
  LET union ==
        round2(QScale(grossWage, deductionInputs.unionDuesPercent,
                      100 * PERCENT_DEN))
      rrsp ==
        round2(QScale(grossWage, deductionInputs.rrspPercent,
                      100 * PERCENT_DEN))
      other == round2(QInt(deductionInputs.otherDeductions))
  IN  [union |-> union,
       rrsp |-> rrsp,
       other |-> other,
       totalVoluntary |-> round2(QInt(union + rrsp + other))]

\* the DeductionBreakdown built by calculateDeductions from the voluntary
\* and the statutory deductions
DeductionBreakdown(voluntary, statutory) ==
  [union |-> voluntary.union,
   rrsp |-> voluntary.rrsp,
   other |-> voluntary.other,
   cpp1 |-> statutory.cpp.cpp1,
   cpp2 |-> statutory.cpp.cpp2,
   ei |-> statutory.ei.ei,
   federal |-> statutory.tax.federal,
   provincial |-> statutory.tax.provincial,
   total |->
     round2(QInt(voluntary.union + voluntary.rrsp + voluntary.other
                   + statutory.cpp.cpp1 + statutory.cpp.cpp2
                   + statutory.ei.ei + statutory.tax.federal
                   + statutory.tax.provincial))]

\* calculateDeductions once the voluntary deductions are computed
DeductionsAfterVoluntary(grossWage, voluntary, ytdInputs, payDate, province, frequency, rrspAtSource) ==
  DeductionBreakdown(voluntary,
    calculateStatutoryDeductions(grossWage, ytdInputs.pensionableEarnings,
      ytdInputs.insurableEarnings, payDate, province,
      PAY_FREQUENCY_CONFIG[frequency],
      IF rrspAtSource THEN voluntary.rrsp ELSE 0))

\* calculateDeductions
calculateDeductions(grossWage, deductionInputs, ytdInputs, payDate, province, frequency, rrspAtSource) ==
  DeductionsAfterVoluntary(grossWage,
    calculateVoluntaryDeductions(grossWage, deductionInputs), ytdInputs,
    payDate, province, frequency, rrspAtSource)

\* calculateNetPay
calculateNetPay(grossTotal, totalDeductions) ==
  round2(QInt(grossTotal - totalDeductions))

\* PayrollResults with the net pay taken from the wage, not the total
PayrollResults_NetOfWage(gross, deductions) ==
  [gross |-> gross,
   deductions |-> deductions,
   net |-> calculateNetPay(gross.wage, deductions.total)]

\* the PayrollResults built by calculatePayroll from gross pay and deductions
PayrollResults(gross, deductions) ==
  [gross |-> gross,
   deductions |-> deductions,
   net |-> calculateNetPay(gross.total, deductions.total)]

\* calculatePayroll once the gross pay is computed
PayrollAfterGross(gross, payrollInputs, deductionInputs, ytdInputs) ==
  PayrollResults(gross,
    calculateDeductions(gross.wage, deductionInputs, ytdInputs,
      payrollInputs.payDate, payrollInputs.province,
      payrollInputs.frequency, deductionInputs.rrspAtSource))

\* calculatePayroll
calculatePayroll(payrollInputs, deductionInputs, ytdInputs) ==
  PayrollAfterGross(calculateGrossPay(payrollInputs), payrollInputs,
                    deductionInputs, ytdInputs)

\* the message pushed when the condition holds
PushIf(condition, message) == IF condition THEN <<message>> ELSE <<>>

\* the errors of validatePayrollInputs, in the order they are pushed
PayrollErrors(payrollInputs, deductionInputs, ytdInputs) ==
  PushIf(payrollInputs.rate <= 0, "Base rate must be greater than 0")
    \o PushIf(payrollInputs.straightTime < 0,
              "Straight time hours cannot be negative")
    \o PushIf(payrollInputs.overtimeHalf < 0,
              "Overtime hours cannot be negative")
    \o PushIf(payrollInputs.overtimeDouble < 0,
              "Double-time hours cannot be negative")
    \o PushIf(deductionInputs.unionDuesPercent < 0
                \/ deductionInputs.unionDuesPercent > 100 * PERCENT_DEN,
              "Union dues percentage must be between 0 and 100")
    \o PushIf(deductionInputs.rrspPercent < 0
                \/ deductionInputs.rrspPercent > 100 * PERCENT_DEN,
              "RRSP percentage must be between 0 and 100")
    \o PushIf(ytdInputs.pensionableEarnings < 0,
              "YTD pensionable earnings cannot be negative")
    \o PushIf(ytdInputs.insurableEarnings < 0,
              "YTD insurable earnings cannot be negative")

\* the warnings of validatePayrollInputs, in the order they are pushed
PayrollWarnings(payrollInputs, deductionInputs) ==
  PushIf(payrollInputs.straightTime + payrollInputs.overtimeHalf
           + payrollInputs.overtimeDouble > 84 * HOUR_DEN,
         "Total hours exceed 84 per week - verify compliance with labour standards")
    \o PushIf(deductionInputs.rrspPercent > 18 * PERCENT_DEN,
              "RRSP contribution exceeds typical 18% limit")

\* the value validatePayrollInputs returns for its errors and warnings
ValidationResult(errors, warnings) ==
  [isValid |-> Len(errors) = 0, errors |-> errors, warnings |-> warnings]

\* validatePayrollInputs
validatePayrollInputs(payrollInputs, deductionInputs, ytdInputs) ==
  ValidationResult(PayrollErrors(payrollInputs, deductionInputs, ytdInputs),
                   PayrollWarnings(payrollInputs, deductionInputs))

----------------------------------------------------------------------------
(* Rigging calculations.  Every number of the rigging code is held as an   *)
(* exact fraction n/d in lowest terms with d > 0; a division by zero gives *)
(* Infinity, -Infinity or NaN as in the code, and comparisons with NaN are *)
(* false.  Math.cos is a table rounded to 1/COS_DEN.  Messages are held by *)
(* their constant text, without the numbers interpolated into them.        *)

Abs(x) == IF x < 0 THEN -x ELSE x

RECURSIVE GcdNat(_, _)
GcdNat(a, b) == IF b = 0 THEN a ELSE GcdNat(b, a % b)

\* the greatest common divisor of two integers that are not both zero
Gcd(a, b) == GcdNat(Abs(a), Abs(b))

\* n/d in lowest terms with a positive denominator (d # 0)
Frac(n, d) ==
  [n |-> (IF d < 0 THEN -n ELSE n) \div Gcd(n, d),
   d |-> (IF d < 0 THEN -d ELSE d) \div Gcd(n, d)]

Num(k) == [n |-> k, d |-> 1]

Lcm(a, b) == (a \div Gcd(a, b)) * b

FracAdd(a, b) ==
  Frac(a.n * (Lcm(a.d, b.d) \div a.d) + b.n * (Lcm(a.d, b.d) \div b.d),
       Lcm(a.d, b.d))

FracNeg(a) == [n |-> -a.n, d |-> a.d]

FracSub(a, b) == FracAdd(a, FracNeg(b))

\* a * b, cancelling across before multiplying
FracMul(a, b) ==
  [n |-> (a.n \div Gcd(a.n, b.d)) * (b.n \div Gcd(b.n, a.d)),
   d |-> (a.d \div Gcd(b.n, a.d)) * (b.d \div Gcd(a.n, b.d))]

\* a / b for b # 0
FracDiv(a, b) ==
  FracMul(a, IF b.n < 0 THEN [n |-> -b.d, d |-> -b.n]
                         ELSE [n |-> b.d, d |-> b.n])

\* Math.abs
FracAbs(a) == IF a.n < 0 THEN FracNeg(a) ELSE a

\* n1/d1 <= n2/d2 for positive denominators, by comparing the whole parts
\* and then the reciprocals of the fractional parts
RECURSIVE QuotientLe(_, _, _, _)
QuotientLe(n1, d1, n2, d2) ==
  IF (n1 \div d1) # (n2 \div d2) THEN (n1 \div d1) < (n2 \div d2)
  ELSE IF n1 % d1 = 0 THEN TRUE
  ELSE IF n2 % d2 = 0 THEN FALSE
  ELSE QuotientLe(d2, n2 % d2, d1, n1 % d1)

FracLe(a, b) == QuotientLe(a.n, a.d, b.n, b.d)

FracLt(a, b) == ~FracLe(b, a)

\* the comparisons of a fraction with an integer
FracGeInt(a, k) == a.n \div a.d >= k

FracLtInt(a, k) == a.n \div a.d < k

FracGtInt(a, k) == ~(a.n \div a.d < k) /\ a # Num(k)

FracLeInt(a, k) == ~FracGtInt(a, k)

\* the results of a floating-point division: a finite value or one of the
\* three special values
Finite(v) == [kind |-> "finite", v |-> v]

PlusInfinity == [kind |-> "Infinity"]

MinusInfinity == [kind |-> "-Infinity"]

NaN == [kind |-> "NaN"]

\* a / b as the code's division computes it
Divide(a, b) ==
  IF b.n # 0 THEN Finite(FracDiv(a, b))
  ELSE IF a.n > 0 THEN PlusInfinity
  ELSE IF a.n < 0 THEN MinusInfinity
  ELSE NaN

\* x * k for a positive fraction k
Times(x, k) == IF x.kind = "finite" THEN Finite(FracMul(x.v, k)) ELSE x

\* x >= k, x < k and x <= k for an integer k
GeInt(x, k) ==
  IF x.kind = "finite" THEN FracGeInt(x.v, k) ELSE x.kind = "Infinity"

LtInt(x, k) ==
  IF x.kind = "finite" THEN FracLtInt(x.v, k) ELSE x.kind = "-Infinity"

\* x <= b for a fraction b
Le(x, b) ==
  IF x.kind = "finite" THEN FracLe(x.v, b) ELSE x.kind = "-Infinity"

\* RIGGING_CONSTANTS
GRAVITY == Frac(980665, 100000)

DESIGN_FACTOR == Frac(125, 100)

MINIMUM_SAFETY_MARGIN == 25

MIN_ANGLE == 10

MAX_ANGLE == 150

MAX_LEGS == 4

HITCH_FACTORS ==
  [vertical |-> Frac(10, 10), choker |-> Frac(75, 100), basket |-> Frac(20, 10)]

\* the denominator of the cosine table
COS_DEN == 10000

\* Math.cos of half the included angle (degrees), in units of 1/COS_DEN
CosOfHalf ==
  -200 :> -1736 @@ 200 :> -1736 @@ 270 :> -7071 @@ 360 :> -10000 @@
    -120 :> 5000 @@ -60 :> 8660 @@ 0 :> 10000 @@ 5 :> 9990 @@ 9 :> 9969 @@
    10 :> 9962 @@ 11 :> 9954 @@ 30 :> 9659 @@ 60 :> 8660 @@ 90 :> 7071 @@
    119 :> 5075 @@ 120 :> 5000 @@ 121 :> 4924 @@ 149 :> 2672 @@
    150 :> 2588 @@ 151 :> 2504 @@ 170 :> 872

\* calculateAngleFactor for an included angle in whole degrees
calculateAngleFactor(includedAngle) ==
  [angleFactor |-> Frac(COS_DEN, CosOfHalf[includedAngle]),
   legAngle |-> Frac(includedAngle, 2),
   efficiency |-> Frac(CosOfHalf[includedAngle], COS_DEN)]

\* Math.max and Math.min over a non-empty list of fractions
RECURSIVE MaxOf(_)
MaxOf(forces) ==
  IF Len(forces) = 1 THEN forces[1]
  ELSE IF FracLe(MaxOf(Tail(forces)), forces[1]) THEN forces[1]
  ELSE MaxOf(Tail(forces))

RECURSIVE MinOf(_)
MinOf(forces) ==
  IF Len(forces) = 1 THEN forces[1]
  ELSE IF FracLe(forces[1], MinOf(Tail(forces))) THEN forces[1]
  ELSE MinOf(Tail(forces))

\* the lever-arm shares taken over half the spacing
LeverLoads_OverHalfSpacing(cogOffset, spacing) ==
  <<FracDiv(FracSub(FracDiv(spacing, Num(2)), cogOffset),
            FracDiv(spacing, Num(2))),
    FracDiv(FracAdd(FracDiv(spacing, Num(2)), cogOffset),
            FracDiv(spacing, Num(2)))>>

\* the lever-arm shares with the two legs' shares exchanged
LeverLoads_Swapped(cogOffset, spacing) ==
  <<FracDiv(FracAdd(FracDiv(spacing, Num(2)), cogOffset), spacing),
    FracDiv(FracSub(FracDiv(spacing, Num(2)), cogOffset), spacing)>>

\* the shares of legs A and B by the lever principle: distanceToLegB and
\* distanceToLegA over totalDistance, which is the spacing
LeverLoads(cogOffset, spacing) ==
  <<FracDiv(FracSub(FracDiv(spacing, Num(2)), cogOffset), spacing),
    FracDiv(FracAdd(FracDiv(spacing, Num(2)), cogOffset), spacing)>>

\* legLoads of calculateLoadDistribution
legLoads(legs, cogOffset, spacing) ==
  IF legs = 2 /\ spacing.n > 0 /\ FracGtInt(FracAbs(cogOffset), 1)
  THEN LeverLoads(cogOffset, spacing)
  ELSE [i \in 1..legs |-> Frac(1, legs)]

\* the LoadDistribution returned for the shares and the forces per leg
LoadDistribution(shares, legForcesN) ==
  [legLoads |-> shares,
   maxTension |-> MaxOf(legForcesN),
   minTension |-> MinOf(legForcesN),
   isBalanced |->
     Le(Divide(MaxOf(legForcesN), MinOf(legForcesN)), Frac(11, 10)),
   imbalanceRatio |-> Divide(MaxOf(legForcesN), MinOf(legForcesN))]

\* legForcesN: every share times the total force
LegForces(shares, totalForceN) ==
  [i \in DOMAIN shares |-> FracMul(totalForceN, shares[i])]

\* calculateLoadDistribution once the shares are computed
DistributionOfShares(weight, shares) ==
  LoadDistribution(shares, LegForces(shares, FracMul(weight, GRAVITY)))

\* calculateLoadDistribution for a whole number of legs >= 1
calculateLoadDistribution(weight, legs, cogOffset, spacing) ==
  DistributionOfShares(weight, legLoads(legs, cogOffset, spacing))

\* the warnings of calculateSafetyFactors, in the order they are pushed
SafetyWarnings(safetyMargin) ==
  PushIf(~GeInt(safetyMargin, MINIMUM_SAFETY_MARGIN),
         "Insufficient sling capacity")
    \o PushIf(LtInt(safetyMargin, 50),
              "Low safety margin - consider higher capacity slings")

\* the recommendations of calculateSafetyFactors, in the order they are
\* pushed
SafetyRecommendations(safetyMargin, hitchType) ==
  PushIf(~GeInt(safetyMargin, MINIMUM_SAFETY_MARGIN),
         "Use slings with minimum WLL")
    \o PushIf(hitchType = "choker",
              "Choker hitch reduces capacity to 75% of vertical rating")
    \o PushIf(hitchType = "basket",
              "Basket hitch doubles capacity but requires proper load support")

\* the SafetyAnalysis with the margin required for adequacy raised to the
\* low-margin level
SafetyAnalysis_AdequateFrom50(safetyMargin, minRequiredWLL, hitchType) ==
  [isWLLAdequate |-> GeInt(safetyMargin, 50),
   safetyMargin |-> safetyMargin,
   minRequiredWLL |-> minRequiredWLL,
   recommendedWLL |-> FracMul(minRequiredWLL, Frac(11, 10)),
   warnings |-> SafetyWarnings(safetyMargin),
   recommendations |-> SafetyRecommendations(safetyMargin, hitchType)]

\* the SafetyAnalysis returned for the margin and the minimum required WLL
SafetyAnalysis(safetyMargin, minRequiredWLL, hitchType) ==
  [isWLLAdequate |-> GeInt(safetyMargin, MINIMUM_SAFETY_MARGIN),
   safetyMargin |-> safetyMargin,
   minRequiredWLL |-> minRequiredWLL,
   recommendedWLL |-> FracMul(minRequiredWLL, Frac(11, 10)),
   warnings |-> SafetyWarnings(safetyMargin),
   recommendations |-> SafetyRecommendations(safetyMargin, hitchType)]

\* effectiveWLLN: the sling's WLL times the hitch factor, in newtons
effectiveWLLN(slingWLL, hitchType) ==
  FracMul(FracMul(slingWLL, HITCH_FACTORS[hitchType]), GRAVITY)

\* safetyMargin: ((effectiveWLLN - maxTensionN) / maxTensionN) * 100; for a
\* tension other than zero the quotient is taken as effective / tension - 1,
\* the same value, which keeps the intermediate numerators small
safetyMarginOf(effective, maxTensionN) ==
  Times(IF maxTensionN.n = 0
          THEN Divide(FracSub(effective, maxTensionN), maxTensionN)
          ELSE Finite(FracSub(FracDiv(effective, maxTensionN), Num(1))),
        Num(100))

\* calculateSafetyFactors
calculateSafetyFactors(maxTensionN, slingWLL, hitchType) ==
  SafetyAnalysis(
    safetyMarginOf(effectiveWLLN(slingWLL, hitchType), maxTensionN),
    FracDiv(FracMul(maxTensionN, DESIGN_FACTOR), GRAVITY),
    hitchType)

\* the warnings of validateRiggingGeometry with the angle limits and the
\* leg limit themselves warned about
GeometryWarnings_LimitsIncluded(inputs) ==
  PushIf(inputs.angle <= MIN_ANGLE, "Included angle too small")
    \o PushIf(inputs.angle >= MAX_ANGLE, "Included angle too large")
    \o PushIf(inputs.legs >= MAX_LEGS, "Too many legs")
    \o PushIf(inputs.weight.n <= 0, "Load weight must be greater than zero")
    \o PushIf(inputs.slingWLL.n <= 0, "Sling WLL must be greater than zero")
    \o PushIf(inputs.angle > 120,
              "Wide angles significantly increase sling tension - consider reducing angle")
    \o PushIf(FracLt(FracDiv(inputs.spacing, Num(2)),
                     FracAbs(inputs.cogOffset)),
              "CoG offset exceeds half the pick spacing - load may be unstable")

\* the warnings of validateRiggingGeometry, in the order they are pushed
GeometryWarnings(inputs) ==
  PushIf(inputs.angle < MIN_ANGLE, "Included angle too small")
    \o PushIf(inputs.angle > MAX_ANGLE, "Included angle too large")
    \o PushIf(inputs.legs > MAX_LEGS, "Too many legs")
    \o PushIf(inputs.weight.n <= 0, "Load weight must be greater than zero")
    \o PushIf(inputs.slingWLL.n <= 0, "Sling WLL must be greater than zero")
    \o PushIf(inputs.angle > 120,
              "Wide angles significantly increase sling tension - consider reducing angle")
    \o PushIf(FracLt(FracDiv(inputs.spacing, Num(2)),
                     FracAbs(inputs.cogOffset)),
              "CoG offset exceeds half the pick spacing - load may be unstable")

\* validateRiggingGeometry
validateRiggingGeometry(inputs) ==
  [isValid |-> TRUE, warnings |-> GeometryWarnings(inputs)]

\* the safety analysis after safety.warnings.push(...geometry warnings)
WithGeometryWarnings(safety, geometryValidation) ==
  [safety EXCEPT !.warnings = @ \o geometryValidation.warnings]

\* newtons in kilonewtons
KiloNewtons(forceN) == FracDiv(forceN, Num(1000))

\* the RiggingResults with the overall check taken from the geometry alone
RiggingResults_GeometryOnly(geometryValidation, angleFactor, loadDistribution, maxTensionWithAngle, safety) ==
  [angleFactor |-> angleFactor,
   loadDistribution |-> loadDistribution,
   tensionPerLeg |-> KiloNewtons(maxTensionWithAngle),
   forcePerLeg |-> KiloNewtons(maxTensionWithAngle),
   safety |-> safety,
   maxTensionKN |-> KiloNewtons(maxTensionWithAngle),
   minRequiredWLL |-> safety.minRequiredWLL,
   safetyCheck |-> geometryValidation.isValid]

\* the RiggingResults returned by calculateRiggingAnalysis
RiggingResults(geometryValidation, angleFactor, loadDistribution, maxTensionWithAngle, safety) ==
  [angleFactor |-> angleFactor,
   loadDistribution |-> loadDistribution,
   tensionPerLeg |-> KiloNewtons(maxTensionWithAngle),
   forcePerLeg |-> KiloNewtons(maxTensionWithAngle),
   safety |-> safety,
   maxTensionKN |-> KiloNewtons(maxTensionWithAngle),
   minRequiredWLL |-> safety.minRequiredWLL,
   safetyCheck |-> safety.isWLLAdequate /\ geometryValidation.isValid]

\* the analysis with the geometry warnings put ahead of the safety warnings
AnalysisOfTension_GeometryFirst(inputs, geometryValidation, angleFactor, loadDistribution, maxTensionWithAngle) ==
  RiggingResults(geometryValidation, angleFactor, loadDistribution,
    maxTensionWithAngle,
    [calculateSafetyFactors(maxTensionWithAngle, inputs.slingWLL,
                            inputs.hitchType)
       EXCEPT !.warnings = geometryValidation.warnings \o @])

\* calculateRiggingAnalysis once the tension with the angle is computed
AnalysisOfTension(inputs, geometryValidation, angleFactor, loadDistribution, maxTensionWithAngle) ==
  RiggingResults(geometryValidation, angleFactor, loadDistribution,
    maxTensionWithAngle,
    WithGeometryWarnings(
      calculateSafetyFactors(maxTensionWithAngle, inputs.slingWLL,
                             inputs.hitchType),
      geometryValidation))

\* calculateRiggingAnalysis once the angle factor and the load distribution
\* are computed
AnalysisOfParts(inputs, geometryValidation, angleFactor, loadDistribution) ==
  AnalysisOfTension(inputs, geometryValidation, angleFactor, loadDistribution,
    FracMul(loadDistribution.maxTension, angleFactor.angleFactor))

\* calculateRiggingAnalysis
calculateRiggingAnalysis(inputs) ==
  AnalysisOfParts(inputs, validateRiggingGeometry(inputs),
    calculateAngleFactor(inputs.angle),
    calculateLoadDistribution(inputs.weight, inputs.legs, inputs.cogOffset,
                              inputs.spacing))

----------------------------------------------------------------------------
(* Inputs of the calls *)

\* the largest multiple of the grid step among the amounts tried
MaxGrid == 12

\* the periods per year of the four pay frequencies
PeriodsPerYear ==
  {PAY_FREQUENCY_CONFIG[f] : f \in DOMAIN PAY_FREQUENCY_CONFIG}

\* amounts of one period, in cents: a grid, the values around the per-period
\* CPP exemption of each frequency, negative and very large amounts
Earnings ==
  {33337 * k : k \in 0..MaxGrid}
    \cup {-100000, -1, 1, 5000, 6730, 6731, 13461, 13462, 14583, 14584,
          29166, 29167, 123456, 500000, 800000, 7500000}

\* year-to-date pensionable earnings, in cents
YtdPensionable ==
  {-500000, -1, 0, 6600000, 6779999, 6780000, 6780001, 6900000, 7000000,
   7130000, 7130001, 7920000, 8120000, 10000000}

\* year-to-date insurable earnings, in cents
YtdInsurable ==
  {-500000, -1, 0, 6000000, 6500000, 6569999, 6570000, 6570001, 7000000}

Date(y, m, d) == [year |-> y, month |-> m, day |-> d]

PayDates ==
  {Date(2024, 12, 31), Date(2025, 1, 15), Date(2025, 6, 30), Date(2025, 7, 1),
   Date(2025, 7, 15), Date(2025, 12, 31), Date(2026, 1, 1)}

Provinces == {"AB", "ON"}

\* taxable income of one period, in cents: the grid, the amounts that
\* annualize to just below and to 30,000 dollars, the monthly amounts at the
\* two ends of the federal basic-personal-amount phase-out, and high incomes
TaxableIncomes ==
  Earnings \cup {57692, 57693, 115384, 115385, 124999, 125000, 249999,
                 250000, 390000, 450000, 1000000, 2500000,
                 1482350, 1482351, 2111783, 2111784}

CPPRequests ==
  {[fn |-> "calculateCPP", pensionableEarnings |-> e, ytdPensionable |-> y,
    periodsPerYear |-> p] :
     e \in Earnings, y \in YtdPensionable, p \in PeriodsPerYear}

EIRequests ==
  {[fn |-> "calculateEI", insurableEarnings |-> e, ytdInsurable |-> y,
    periodsPerYear |-> p] :
     e \in Earnings, y \in YtdInsurable, p \in PeriodsPerYear}

IncomeTaxRequests ==
  {[fn |-> "calculateIncomeTax", taxableIncome |-> t, payDate |-> d,
    province |-> v, periodsPerYear |-> p] :
     t \in TaxableIncomes, d \in PayDates, v \in Provinces,
     p \in PeriodsPerYear}

\* gross wage of one period, in cents
GrossWages == {-100000, 0, 5000, 123456, 200022, 338000, 500000, 7500000}

\* RRSP amounts deducted at source, in cents
RrspAmounts == {-500000, 0, 10000, 100000, 1000000}

StatutoryRequests ==
  {[fn |-> "calculateStatutoryDeductions", grossWage |-> g,
    ytdPensionable |-> yp, ytdInsurable |-> yi, payDate |-> d,
    province |-> v, periodsPerYear |-> p, rrspAtSource |-> r] :
     g \in GrossWages, yp \in {-500000, 0, 6600000, 7000000, 8120000},
     yi \in {0, 6500000, 7000000},
     d \in {Date(2025, 1, 15), Date(2025, 7, 15)}, v \in Provinces,
     p \in PeriodsPerYear, r \in RrspAmounts}

Frequencies == DOMAIN PAY_FREQUENCY_CONFIG

\* hourly rates in cents, a negative and a zero rate among them
Rates == {-6000, 0, 6000, 6543}

PayrollInputs ==
  {[rate |-> r, straightTime |-> st, overtimeHalf |-> oh,
    overtimeDouble |-> od, shiftPremium |-> sp, travelHours |-> th,
    travelRate |-> tr, perDiem |-> pd, days |-> 5,
    payDate |-> Date(2025, 1, 15), frequency |-> "weekly",
    province |-> "AB"] :
     r \in Rates, st \in {0, 150, 160}, oh \in {0, 33}, od \in {0, 17},
     sp \in {0, 225, 333}, th \in {0, 10}, tr \in {0, 3001},
     pd \in {0, 15000}}

GrossPayRequests ==
  {[fn |-> "calculateGrossPay", inputs |-> i] : i \in PayrollInputs}

\* the year-to-date accumulators a caller passes
Ytd(pensionable, insurable) ==
  [pensionableEarnings |-> pensionable, cpp1Paid |-> 0, cpp2Paid |-> 0,
   insurableEarnings |-> insurable, eiPaid |-> 0]

YtdInputs == {Ytd(0, 0), Ytd(6600000, 6500000), Ytd(8120000, 7000000)}

DeductionInputs ==
  {[unionDuesPercent |-> u, rrspPercent |-> r, rrspAtSource |-> a,
    otherDeductions |-> o] :
     u \in {0, 300}, r \in {-500, 0, 500, 1800, 10000, 20000},
     a \in BOOLEAN, o \in {0, 2500}}

DeductionsRequests ==
  {[fn |-> "calculateDeductions", grossWage |-> g, deductionInputs |-> c,
    ytdInputs |-> y, payDate |-> d, province |-> v, frequency |-> f,
    rrspAtSource |-> c.rrspAtSource] :
     g \in GrossWages, c \in DeductionInputs, y \in YtdInputs,
     d \in {Date(2025, 1, 15), Date(2025, 7, 15)}, v \in Provinces,
     f \in Frequencies}

Deduction(union, rrsp, atSource, other) ==
  [unionDuesPercent |-> union, rrspPercent |-> rrsp, rrspAtSource |-> atSource,
   otherDeductions |-> other]

\* payroll inputs a validation rejects or warns about: non-positive rates,
\* negative hours, more than 84 hours, several per diems and day counts
UncheckedPayrollInputs ==
  {[rate |-> r, straightTime |-> st, overtimeHalf |-> oh,
    overtimeDouble |-> od, shiftPremium |-> 0, travelHours |-> 0,
    travelRate |-> 0, perDiem |-> pd, days |-> dy,
    payDate |-> Date(2025, 1, 15), frequency |-> "weekly",
    province |-> "AB"] :
     r \in {-1000, 0, 6000}, st \in {-20, 0, 160, 340}, oh \in {-4, 0},
     od \in {-4, 0}, pd \in {0, 7550}, dy \in {0, 3}}

PayrollRequests ==
  {[fn |-> "calculatePayroll", payrollInputs |-> i, deductionInputs |-> c,
    ytdInputs |-> Ytd(0, 0)] :
     i \in PayrollInputs \cup UncheckedPayrollInputs,
     c \in {Deduction(300, 500, TRUE, 2500), Deduction(250, 0, FALSE, 0)}}

\* year-to-date accumulators of which at most one is negative
UncheckedYtdInputs ==
  {[pensionableEarnings |-> IF k = 1 THEN -1 ELSE 100000,
    cpp1Paid |-> IF k = 2 THEN -100 ELSE 5000,
    cpp2Paid |-> IF k = 3 THEN -100 ELSE 0,
    insurableEarnings |-> IF k = 4 THEN -1 ELSE 100000,
    eiPaid |-> IF k = 5 THEN -100 ELSE 1640] : k \in 0..5}

ValidateRequests ==
  {[fn |-> "validatePayrollInputs", payrollInputs |-> i,
    deductionInputs |-> Deduction(u, r, FALSE, 0), ytdInputs |-> y] :
     i \in {j \in UncheckedPayrollInputs : j.perDiem = 0 /\ j.days = 0},
     u \in {-100, 0, 10000, 10001}, r \in {-1, 0, 1800, 1801, 10001},
     y \in UncheckedYtdInputs}

----------------------------------------------------------------------------
(* The calls: a caller holds a request and the function is applied to it *)

Pending == [fn |-> "none"]

\* the running totals of a caller that pays period after period
NewLedger ==
  [i |-> 0, cumulativeNet |-> 0, cumulativeGross |-> 0,
   cumulativeDeductions |-> 0, cumulativeAllowances |-> 0]

Init ==
  /\ pc = "call"
  /\ \/ req \in CPPRequests
     \/ req \in EIRequests
     \/ req \in IncomeTaxRequests
     \/ req \in StatutoryRequests
     \/ req \in GrossPayRequests
     \/ req \in DeductionsRequests
     \/ req \in PayrollRequests
     \/ req \in ValidateRequests
  /\ res = Pending
  /\ ledger = NewLedger

CallCalculateCPP ==
  /\ pc = "call"
  /\ req.fn = "calculateCPP"
  /\ res' = calculateCPP(req.pensionableEarnings, req.ytdPensionable,
                         req.periodsPerYear)
  /\ pc' = "done"
  /\ UNCHANGED <<req, ledger>>

CallCalculateEI ==
  /\ pc = "call"
  /\ req.fn = "calculateEI"
  /\ res' = calculateEI(req.insurableEarnings, req.ytdInsurable,
                        req.periodsPerYear)
  /\ pc' = "done"
  /\ UNCHANGED <<req, ledger>>

CallCalculateIncomeTax ==
  /\ pc = "call"
  /\ req.fn = "calculateIncomeTax"
  /\ res' = calculateIncomeTax(req.taxableIncome, req.payDate, req.province,
                               req.periodsPerYear)
  /\ pc' = "done"
  /\ UNCHANGED <<req, ledger>>

CallCalculateStatutoryDeductions ==
  /\ pc = "call"
  /\ req.fn = "calculateStatutoryDeductions"
  /\ res' = calculateStatutoryDeductions(req.grossWage, req.ytdPensionable,
              req.ytdInsurable, req.payDate, req.province,
              req.periodsPerYear, req.rrspAtSource)
  /\ pc' = "done"
  /\ UNCHANGED <<req, ledger>>

CallCalculateGrossPay ==
  /\ pc = "call"
  /\ req.fn = "calculateGrossPay"
  /\ res' = calculateGrossPay(req.inputs)
  /\ pc' = "done"
  /\ UNCHANGED <<req, ledger>>

CallCalculateDeductions ==
  /\ pc = "call"
  /\ req.fn = "calculateDeductions"
  /\ res' = calculateDeductions(req.grossWage, req.deductionInputs,
              req.ytdInputs, req.payDate, req.province, req.frequency,
              req.rrspAtSource)
  /\ pc' = "done"
  /\ UNCHANGED <<req, ledger>>

CallCalculatePayroll ==
  /\ pc = "call"
  /\ req.fn = "calculatePayroll"
  /\ res' = calculatePayroll(req.payrollInputs, req.deductionInputs,
                             req.ytdInputs)
  /\ pc' = "done"
  /\ UNCHANGED <<req, ledger>>

CallValidatePayrollInputs ==
  /\ pc = "call"
  /\ req.fn = "validatePayrollInputs"
  /\ res' = validatePayrollInputs(req.payrollInputs, req.deductionInputs,
                                  req.ytdInputs)
  /\ pc' = "done"
  /\ UNCHANGED <<req, ledger>>

Next ==
  \/ CallCalculateCPP
  \/ CallCalculateEI
  \/ CallCalculateIncomeTax
  \/ CallCalculateStatutoryDeductions
  \/ CallCalculateGrossPay
  \/ CallCalculateDeductions
  \/ CallCalculatePayroll
  \/ CallValidatePayrollInputs

Spec == Init /\ [][Next]_vars

----------------------------------------------------------------------------
(* A year of pay periods: the caller of the full-year simulation keeps     *)
(* running totals and passes the wages paid so far as the year-to-date     *)
(* pensionable and insurable earnings of the next period.                  *)

\* the number of pay periods simulated
MaxPeriods == 4

YearPayroll(rate, perDiem, payDate, frequency) ==
  [rate |-> rate, straightTime |-> 160, overtimeHalf |-> 33,
   overtimeDouble |-> 0, shiftPremium |-> 225, travelHours |-> 0,
   travelRate |-> 0, perDiem |-> perDiem, days |-> 5, payDate |-> payDate,
   frequency |-> frequency, province |-> "AB"]

\* an ordinary weekly pay and a very large monthly one, with and without
\* per diem
YearPayrollInputs ==
  {YearPayroll(6543, 15000, Date(2025, 1, 15), "weekly"),
   YearPayroll(6543, 0, Date(2025, 7, 15), "weekly"),
   YearPayroll(70001, 15000, Date(2025, 1, 15), "monthly"),
   YearPayroll(70001, 0, Date(2025, 7, 15), "monthly")}

YearDeductionInputs ==
  {Deduction(300, 500, TRUE, 2500), Deduction(250, 1800, FALSE, 0)}

YearInit ==
  /\ pc = "loop"
  /\ req = Pending
  /\ res = Pending
  /\ ledger = NewLedger

\* the year-to-date accumulators the simulation passes for the next period
YtdOfLedger ==
  [pensionableEarnings |-> ledger.cumulativeGross,
   cpp1Paid |-> QScale(ledger.cumulativeDeductions, 1, 10),
   cpp2Paid |-> 0,
   insurableEarnings |-> ledger.cumulativeGross,
   eiPaid |-> QScale(ledger.cumulativeDeductions, 5, 100)]

PayPeriod ==
  /\ pc = "loop"
  /\ ledger.i < MaxPeriods
  /\ \E inputs \in YearPayrollInputs, deductionInputs \in YearDeductionInputs :
       \E result \in {calculatePayroll(inputs, deductionInputs, YtdOfLedger)} :
         /\ req' = [fn |-> "calculatePayroll", payrollInputs |-> inputs,
                    deductionInputs |-> deductionInputs,
                    ytdInputs |-> YtdOfLedger]
         /\ res' = result
         /\ ledger' =
              [i |-> ledger.i + 1,
               cumulativeNet |-> ledger.cumulativeNet + result.net,
               cumulativeGross |-> ledger.cumulativeGross + result.gross.wage,
               cumulativeDeductions |->
                 ledger.cumulativeDeductions + result.deductions.total,
               cumulativeAllowances |->
                 ledger.cumulativeAllowances + result.gross.allowances]
  /\ UNCHANGED pc

YearNext == PayPeriod

YearSpec == YearInit /\ [][YearNext]_vars

----------------------------------------------------------------------------
(* A year of contributions: the caller starts the year with no earnings,   *)
(* calls calculateCPP and calculateEI for each period with the wages paid  *)
(* so far as the year-to-date earnings, and adds the period's gross wage   *)
(* to both after the period.  The ledger also sums what the calls return.  *)

\* gross wages of one period, in cents: none, one below every per-period
\* exemption, ordinary ones, and the amounts of the annual limits
ContributionWages ==
  {0, 5000, 150000, 990000, 3000000, 6570000, 7130000}

NewContributionLedger ==
  [i |-> 0, ytdPensionable |-> 0, ytdInsurable |-> 0,
   cpp1Base |-> QInt(0), cpp2Base |-> 0, eiBase |-> 0, cpp1Paid |-> 0,
   aboveExemption |-> TRUE]

ContributionInit ==
  /\ pc = "year"
  /\ \E p \in PeriodsPerYear :
       req = [fn |-> "none", periodsPerYear |-> p]
  /\ res = Pending
  /\ ledger = NewContributionLedger

\* whether a wage exceeds the per-period basic exemption
ExceedsExemption(wage, periodsPerYear) ==
  ~QLeInt(QSub(QInt(wage), cppBaseExemptionPerPay(periodsPerYear)), 0)

\* the ledger after a period with the given wage and results
ContributionLedgerAfter(wage, cpp, ei) ==
  [i |-> ledger.i + 1,
   ytdPensionable |-> ledger.ytdPensionable + wage,
   ytdInsurable |-> ledger.ytdInsurable + wage,
   cpp1Base |-> QAdd(ledger.cpp1Base, cpp.pensionableEarnings),
   cpp2Base |-> ledger.cpp2Base + cpp.cpp2Base,
   eiBase |-> ledger.eiBase + ei.insurableEarnings,
   cpp1Paid |-> ledger.cpp1Paid + cpp.cpp1,
   aboveExemption |->
     ledger.aboveExemption /\ ExceedsExemption(wage, req.periodsPerYear)]

ContributionPeriod ==
  /\ pc = "year"
  /\ ledger.i < MaxPeriods
  /\ \E wage \in ContributionWages :
       \E cpp \in {calculateCPP(wage, ledger.ytdPensionable,
                                req.periodsPerYear)},
          ei \in {calculateEI(wage, ledger.ytdInsurable,
                              req.periodsPerYear)} :
         /\ req' = [fn |-> "contributions", grossWage |-> wage,
                    ytdPensionable |-> ledger.ytdPensionable,
                    ytdInsurable |-> ledger.ytdInsurable,
                    periodsPerYear |-> req.periodsPerYear]
         /\ res' = [cpp |-> cpp, ei |-> ei]
         /\ ledger' = ContributionLedgerAfter(wage, cpp, ei)
  /\ UNCHANGED pc

ContributionNext == ContributionPeriod

ContributionSpec == ContributionInit /\ [][ContributionNext]_vars

----------------------------------------------------------------------------
(* The rigging calls: a caller holds a request and the function is applied *)
(* to it.  Weights and WLLs are in kg, forces in newtons, offsets and      *)
(* spacings in mm, angles in whole degrees.                                *)

\* the largest number of sling legs tried
MaxLegs == 5

LegCounts == 1..MaxLegs

\* the included angles calculateAngleFactor is called with
AnglesAccepted == DOMAIN CosOfHalf

\* the included angles of a lift: below a straight angle on either side, so
\* that the angle factor is positive
Angles == {a \in AnglesAccepted : -180 < a /\ a < 180}

HitchTypes == DOMAIN HITCH_FACTORS

Weights == {Num(-100), Num(0), Num(1000), Frac(5, 2)}

CogOffsets ==
  {Num(-600), Num(-500), Num(-2), Num(-1), Num(0), Num(1), Frac(3, 2),
   Num(2), Num(100), Num(500), Num(501), Num(1200)}

Spacings == {Num(-1000), Num(0), Num(1000), Num(2000)}

\* tensions in newtons: none, the weight of 1000 kg, and for a 1000 kg sling
\* the tensions that leave a margin of exactly 25% with each hitch, a cent
\* more and less, and of exactly 50%
Tensions ==
  {Num(-100), Num(0), Num(5000), Frac(980665, 100), Frac(784532, 100),
   Frac(784531, 100), Frac(784533, 100), Frac(588399, 100),
   Frac(1569064, 100), Frac(980665, 150), Num(20000)}

SlingWLLs == {Num(-500), Num(0), Num(1000), Num(2000)}

AngleFactorRequests ==
  {[fn |-> "calculateAngleFactor", includedAngle |-> a] :
     a \in AnglesAccepted}

LoadDistributionRequests ==
  {[fn |-> "calculateLoadDistribution", weight |-> w, legs |-> n,
    cogOffset |-> c, spacing |-> s] :
     w \in Weights, n \in LegCounts, c \in CogOffsets, s \in Spacings}

SafetyFactorsRequests ==
  {[fn |-> "calculateSafetyFactors", maxTensionN |-> t, slingWLL |-> w,
    hitchType |-> h] :
     t \in Tensions, w \in SlingWLLs, h \in HitchTypes}

RiggingInputs ==
  {[weight |-> w, legs |-> n, angle |-> a, cogOffset |-> c, spacing |-> s,
    slingWLL |-> l, hitchType |-> h] :
     w \in {Num(-100), Num(0), Num(1000)}, n \in {2, MAX_LEGS, MaxLegs},
     a \in Angles, c \in {Num(-501), Num(0), Num(100), Num(500), Num(501)},
     s \in {Num(0), Num(1000)}, l \in {Num(0), Num(800), Num(5000)},
     h \in HitchTypes}

GeometryRequests ==
  {[fn |-> "validateRiggingGeometry", inputs |-> i] : i \in RiggingInputs}

AnalysisRequests ==
  {[fn |-> "calculateRiggingAnalysis", inputs |-> i] : i \in RiggingInputs}

RiggingInit ==
  /\ pc = "call"
  /\ \/ req \in AngleFactorRequests
     \/ req \in LoadDistributionRequests
     \/ req \in SafetyFactorsRequests
     \/ req \in GeometryRequests
     \/ req \in AnalysisRequests
  /\ res = Pending
  /\ ledger = NewLedger

CallCalculateAngleFactor ==
  /\ pc = "call"
  /\ req.fn = "calculateAngleFactor"
  /\ res' = calculateAngleFactor(req.includedAngle)
  /\ pc' = "done"
  /\ UNCHANGED <<req, ledger>>

CallCalculateLoadDistribution ==
  /\ pc = "call"
  /\ req.fn = "calculateLoadDistribution"
  /\ res' = calculateLoadDistribution(req.weight, req.legs, req.cogOffset,
                                      req.spacing)
  /\ pc' = "done"
  /\ UNCHANGED <<req, ledger>>

CallCalculateSafetyFactors ==
  /\ pc = "call"
  /\ req.fn = "calculateSafetyFactors"
  /\ res' = calculateSafetyFactors(req.maxTensionN, req.slingWLL,
                                   req.hitchType)
  /\ pc' = "done"
  /\ UNCHANGED <<req, ledger>>

CallValidateRiggingGeometry ==
  /\ pc = "call"
  /\ req.fn = "validateRiggingGeometry"
  /\ res' = validateRiggingGeometry(req.inputs)
  /\ pc' = "done"
  /\ UNCHANGED <<req, ledger>>

CallCalculateRiggingAnalysis ==
  /\ pc = "call"
  /\ req.fn = "calculateRiggingAnalysis"
  /\ res' = calculateRiggingAnalysis(req.inputs)
  /\ pc' = "done"
  /\ UNCHANGED <<req, ledger>>

RiggingNext ==
  \/ CallCalculateAngleFactor
  \/ CallCalculateLoadDistribution
  \/ CallCalculateSafetyFactors
  \/ CallValidateRiggingGeometry
  \/ CallCalculateRiggingAnalysis

RiggingSpec == RiggingInit /\ [][RiggingNext]_vars

----------------------------------------------------------------------------
(* The useLocalStorage hook.  res is what the hook returns (value, error,  *)
(* isLoading), req the last call made on it, and ledger holds the options  *)
(* of the hook, the entry of localStorage under its key and the pending    *)
(* debounce timer.  A stored entry is the object whose JSON text is kept:  *)
(* its version and its data.                                               *)

\* null, undefined: no entry, no error, no timer
Null == [null |-> TRUE]

initialValue == "initial-value"

\* the values set by the callers
StorageValues == {"initial-value", "new-value", "stored-value"}

\* options.version and options.debounceMs
Versions == {1, 2}

DebounceMs == {0, 300}

\* createError
createError(type, message) == [type |-> type, message |-> message]

\* what a write to localStorage meets: storage not available, setItem
\* throwing a QuotaExceededError or another error, or success
WriteOutcomes == {"ok", "ACCESS_DENIED", "QUOTA_EXCEEDED", "UNKNOWN_ERROR"}

\* writeValue: the StorageResult and the entry under the key afterwards
writeValue(value, outcome) ==
  IF outcome = "ACCESS_DENIED"
  THEN [success |-> FALSE,
        error |-> createError("ACCESS_DENIED", "localStorage is not available"),
        item |-> ledger.item]
  ELSE IF outcome = "ok"
  THEN [success |-> TRUE, error |-> Null,
        item |-> [version |-> ledger.version, data |-> value]]
  ELSE [success |-> FALSE,
        error |-> createError(outcome, "Failed to save data to localStorage"),
        item |-> ledger.item]

\* readValue: the StorageResult of reading the entry under the key (no
\* migrations, validator or fallback value are configured)
readValue(available) ==
  IF ~available
  THEN [success |-> FALSE,
        error |-> createError("ACCESS_DENIED", "localStorage is not available")]
  ELSE IF ledger.item = Null
  THEN [success |-> TRUE, error |-> Null, data |-> initialValue]
  ELSE [success |-> TRUE, error |-> Null, data |-> ledger.item.data]

\* the entries a previous session may have left under the key
StoredItems(version) ==
  {Null} \cup {[version |-> w, data |-> d] : w \in 1..version,
                                            d \in StorageValues}

\* the first render: useState(initialValue), no error, loading
HookInit ==
  /\ pc = "render"
  /\ req = Pending
  /\ res = [value |-> initialValue, error |-> Null, isLoading |-> TRUE]
  /\ \E version \in Versions, debounceMs \in DebounceMs :
       \E item \in StoredItems(version) :
         ledger = [version |-> version, debounceMs |-> debounceMs,
                   item |-> item, timer |-> Null, reported |-> FALSE]

\* the state of the hook after a storage error is passed to setError
WithError(error) == [res EXCEPT !.error = error]

\* the initializing effect
HookMount ==
  /\ pc = "render"
  /\ pc' = "mounted"
  /\ \E available \in BOOLEAN :
       \E result \in {readValue(available)} :
         IF result.success
         THEN /\ res' = [value |-> result.data, error |-> Null,
                         isLoading |-> FALSE]
              /\ UNCHANGED ledger
         ELSE /\ res' = [value |-> res.value, error |-> result.error,
                         isLoading |-> FALSE]
              /\ ledger' = [ledger EXCEPT !.reported = TRUE]
  /\ UNCHANGED req

\* setValue(value): the state is updated at once; the write happens at once
\* or, with debounceMs > 0, in a timer that replaces the pending one
SetValue ==
  /\ pc = "mounted"
  /\ \E newValue \in StorageValues, outcome \in WriteOutcomes :
       /\ req' = [fn |-> "setValue", value |-> newValue]
       /\ IF ledger.debounceMs > 0
          THEN /\ res' = [res EXCEPT !.value = newValue, !.error = Null]
               /\ ledger' = [ledger EXCEPT !.timer = [value |-> newValue]]
          ELSE \E result \in {writeValue(newValue, outcome)} :
                 /\ res' = [res EXCEPT !.value = newValue,
                                       !.error = result.error]
                 /\ ledger' = [ledger EXCEPT
                                 !.item = result.item,
                                 !.timer = Null,
                                 !.reported = @ \/ ~result.success]
  /\ UNCHANGED pc

\* writeToStorage run by the debounce timer
TimerFires ==
  /\ pc = "mounted"
  /\ ledger.timer # Null
  /\ \E outcome \in WriteOutcomes :
       \E result \in {writeValue(ledger.timer.value, outcome)} :
         /\ res' = IF result.success THEN res ELSE WithError(result.error)
         /\ ledger' = [ledger EXCEPT
                         !.item = result.item,
                         !.timer = Null,
                         !.reported = @ \/ ~result.success]
  /\ UNCHANGED <<pc, req>>

\* removeValue: removeItem, then the state back to initialValue; the error
\* is set when removeItem throws
RemoveValue ==
  /\ pc = "mounted"
  /\ req' = [fn |-> "removeValue"]
  /\ \E removed \in BOOLEAN :
       IF removed
       THEN /\ res' = [res EXCEPT !.value = initialValue, !.error = Null]
            /\ ledger' = [ledger EXCEPT !.item = Null]
       ELSE /\ res' = WithError(createError("UNKNOWN_ERROR",
                        "Failed to remove item from localStorage"))
            /\ ledger' = [ledger EXCEPT !.reported = TRUE]
  /\ UNCHANGED pc

HookNext ==
  \/ HookMount
  \/ SetValue
  \/ TimerFires
  \/ RemoveValue

HookSpec == HookInit /\ [][HookNext]_vars

----------------------------------------------------------------------------
(* A session of a caller: it holds its input records (the form fields and  *)
(* the year-to-date accumulators), passes them by reference to             *)
(* calculatePayroll and calculateRiggingAnalysis in any order, and edits   *)
(* them between the calls.  ledger.heap holds the records, ledger.log the  *)
(* calls made: the arguments as passed, the result, and the arguments as   *)
(* the call left them.                                                     *)

\* the number of calls of a session
MaxCalls == 3

SessionPayrollInputs ==
  {YearPayroll(6543, 15000, Date(2025, 1, 15), "weekly"),
   YearPayroll(70001, 0, Date(2025, 7, 15), "monthly")}

SessionDeductionInputs == {Deduction(300, 500, TRUE, 2500)}

SessionYtdInputs == {Ytd(0, 0), Ytd(6600000, 6500000)}

\* a lift without warnings and one with capacity and geometry warnings
SessionRiggingInputs ==
  {[weight |-> Num(1000), legs |-> 2, angle |-> 60, cogOffset |-> Num(100),
    spacing |-> Num(1000), slingWLL |-> Num(5000), hitchType |-> "vertical"],
   [weight |-> Num(1000), legs |-> MAX_LEGS, angle |-> 150,
    cogOffset |-> Num(501), spacing |-> Num(1000), slingWLL |-> Num(800),
    hitchType |-> "choker"]}

\* the records a caller holds
SessionHeaps ==
  [payrollInputs : SessionPayrollInputs,
   deductionInputs : SessionDeductionInputs,
   ytdInputs : SessionYtdInputs,
   riggingInputs : SessionRiggingInputs]

SessionInit ==
  /\ pc = "session"
  /\ req = Pending
  /\ res = Pending
  /\ \E heap \in SessionHeaps : ledger = [heap |-> heap, log |-> <<>>]

\* the three argument records of calculatePayroll
PayrollArguments(payrollInputs, deductionInputs, ytdInputs) ==
  [payrollInputs |-> payrollInputs, deductionInputs |-> deductionInputs,
   ytdInputs |-> ytdInputs]

\* calculatePayroll advancing the caller's year-to-date accumulators
ArgumentsAfterPayroll_YtdAdvanced(payrollInputs, deductionInputs, ytdInputs, result) ==
  PayrollArguments(payrollInputs, deductionInputs,
    [ytdInputs EXCEPT
       !.pensionableEarnings = @ + result.gross.wage,
       !.insurableEarnings = @ + result.gross.wage])

\* the argument records after calculatePayroll: the function and the
\* functions it calls read their fields and assign to none of them
ArgumentsAfterPayroll(payrollInputs, deductionInputs, ytdInputs, result) ==
  PayrollArguments(payrollInputs, deductionInputs, ytdInputs)

\* the argument record after calculateRiggingAnalysis: the only object the
\* function writes to is the warnings array of the safety analysis it has
\* just created
ArgumentsAfterRigging(inputs, result) == [inputs |-> inputs]

\* an entry of the log of calls
LogEntry(fn, arguments, result, argumentsAfter) ==
  [fn |-> fn, arguments |-> arguments, result |-> result,
   argumentsAfter |-> argumentsAfter]

SessionCalculatePayroll ==
  /\ pc = "session"
  /\ Len(ledger.log) < MaxCalls
  /\ \E result \in {calculatePayroll(ledger.heap.payrollInputs,
                                     ledger.heap.deductionInputs,
                                     ledger.heap.ytdInputs)} :
       \E after \in {ArgumentsAfterPayroll(ledger.heap.payrollInputs,
                                           ledger.heap.deductionInputs,
                                           ledger.heap.ytdInputs, result)} :
         /\ req' = [fn |-> "calculatePayroll",
                    payrollInputs |-> ledger.heap.payrollInputs,
                    deductionInputs |-> ledger.heap.deductionInputs,
                    ytdInputs |-> ledger.heap.ytdInputs]
         /\ res' = result
         /\ ledger' =
              [heap |-> [ledger.heap EXCEPT
                           !.payrollInputs = after.payrollInputs,
                           !.deductionInputs = after.deductionInputs,
                           !.ytdInputs = after.ytdInputs],
               log |-> Append(ledger.log,
                         LogEntry("calculatePayroll",
                           PayrollArguments(ledger.heap.payrollInputs,
                                            ledger.heap.deductionInputs,
                                            ledger.heap.ytdInputs),
                           result, after))]
  /\ UNCHANGED pc

SessionCalculateRiggingAnalysis ==
  /\ pc = "session"
  /\ Len(ledger.log) < MaxCalls
  /\ \E result \in {calculateRiggingAnalysis(ledger.heap.riggingInputs)} :
       \E after \in {ArgumentsAfterRigging(ledger.heap.riggingInputs,
                                           result)} :
         /\ req' = [fn |-> "calculateRiggingAnalysis",
                    inputs |-> ledger.heap.riggingInputs]
         /\ res' = result
         /\ ledger' =
              [heap |-> [ledger.heap EXCEPT !.riggingInputs = after.inputs],
               log |-> Append(ledger.log,
                         LogEntry("calculateRiggingAnalysis",
                           [inputs |-> ledger.heap.riggingInputs],
                           result, after))]
  /\ UNCHANGED pc

\* the caller edits its records between two calls
SessionEdit ==
  /\ pc = "session"
  /\ Len(ledger.log) < MaxCalls
  /\ \E heap \in SessionHeaps :
       /\ heap # ledger.heap
       /\ ledger' = [ledger EXCEPT !.heap = heap]
  /\ UNCHANGED <<pc, req, res>>

SessionNext ==
  \/ SessionCalculatePayroll
  \/ SessionCalculateRiggingAnalysis
  \/ SessionEdit

SessionSpec == SessionInit /\ [][SessionNext]_vars

Returned(fn) == pc = "done" /\ req.fn = fn

----------------------------------------------------------------------------
(* Claims *)

\* clamp(q, 0, hi) for an exact amount q and an integer hi >= 0
Clamp0(q, hi) ==
  IF q.w < 0 THEN QInt(0) ELSE IF QLeInt(q, hi) THEN q ELSE QInt(hi)

C2_EiFormula ==
  Returned("calculateEI") =>
    LET e == req.insurableEarnings
        ytd == req.ytdInsurable
        room == IF ytd >= 6570000 THEN 0 ELSE 6570000 - ytd
        base == IF e <= 0 THEN 0 ELSE IF e <= room THEN e ELSE room
    IN  /\ res.insurableEarnings = base
        /\ res.ei = round2(QScale(base, 164, 10000))
        /\ (ytd >= 6570000 => res.ei = 0 /\ res.insurableEarnings = 0)
        /\ res.insurableEarnings <= room

\* C2 witness: earnings cut to the one cent of room left below the maximum
C2_Witness ==
  /\ Returned("calculateEI")
  /\ req.ytdInsurable = 6569999
  /\ req.insurableEarnings = 500000
  /\ res.insurableEarnings = 1
  /\ res.ei = 0

\* C4: a negative year-to-date accumulator counts as 0: calculateCPP with
\* ytdPensionable < 0 returns the cpp1 and cpp2 of ytdPensionable = 0, and
\* calculateEI with ytdInsurable < 0 returns the ei of ytdInsurable = 0.
C4_NegativeYtdIsZero ==
  /\ (Returned("calculateCPP") /\ req.ytdPensionable < 0) =>
       LET atZero == calculateCPP(req.pensionableEarnings, 0,
                                  req.periodsPerYear)
       IN  res.cpp1 = atZero.cpp1 /\ res.cpp2 = atZero.cpp2
  /\ (Returned("calculateEI") /\ req.ytdInsurable < 0) =>
       res.ei = calculateEI(req.insurableEarnings, 0, req.periodsPerYear).ei

\* the five statutory amounts of a calculateStatutoryDeductions result
StatutoryAmounts(r) ==
  <<r.cpp.cpp1, r.cpp.cpp2, r.ei.ei, r.tax.federal, r.tax.provincial>>

C6_WholeCents ==
  /\ Returned("calculateCPP") =>
       /\ QIsInt(res.pensionableEarnings)
       /\ QIsInt(QInt(res.cpp2Base))
       /\ QIsInt(QInt(res.cpp1)) /\ QIsInt(QInt(res.cpp2))
  /\ Returned("calculateEI") =>
       QIsInt(QInt(res.insurableEarnings)) /\ QIsInt(QInt(res.ei))
  /\ Returned("calculateStatutoryDeductions") =>
       /\ QIsInt(res.cpp.pensionableEarnings)
       /\ QIsInt(QInt(res.totalStatutory))

\* the calendar date is 2025-07-01 or later
OnOrAfterJuly1(d) ==
  \/ d.year > 2025
  \/ d.year = 2025 /\ d.month >= 7

\* C7: the rate table depends only on the side of 2025-07-01 the pay date is
\* on: two pay dates on the same side give the same federal and provincial
\* tax, and for Alberta at an annualized income of 30,000 or more two pay
\* dates on different sides (2025-06-30 and 2025-07-01 among them) do not.
C7_RateTableBySide ==
  Returned("calculateIncomeTax") =>
    \A d \in PayDates :
      LET other == calculateIncomeTax(req.taxableIncome, d, req.province,
                                      req.periodsPerYear)
      IN  IF OnOrAfterJuly1(d) = OnOrAfterJuly1(req.payDate)
          THEN other.federal = res.federal
                 /\ other.provincial = res.provincial
          ELSE (req.province = "AB"
                  /\ req.taxableIncome * req.periodsPerYear >= 3000000) =>
                 other.federal # res.federal
                   /\ other.provincial # res.provincial

\* C7 witness: a pay on the day of the rate change
C7_Witness ==
  /\ Returned("calculateIncomeTax")
  /\ req.payDate = Date(2025, 7, 1)
  /\ req.province = "AB"
  /\ req.taxableIncome = 200022
  /\ res.federal > 0

\* C8: for Alberta, every frequency and every taxable income, the federal
\* and the provincial tax of a pay date on or after 2025-07-01 are at most
\* those of a pay date before it, and strictly less when the annualized
\* taxable income is at least 30,000.
C8_JulyCutLowersTax ==
  (Returned("calculateIncomeTax") /\ req.province = "AB"
     /\ OnOrAfterJuly1(req.payDate)) =>
    \A d \in PayDates :
      ~OnOrAfterJuly1(d) =>
        LET before == calculateIncomeTax(req.taxableIncome, d, "AB",
                                         req.periodsPerYear)
        IN  /\ res.federal <= before.federal
            /\ res.provincial <= before.provincial
            /\ req.taxableIncome * req.periodsPerYear >= 3000000 =>
                 /\ res.federal < before.federal
                 /\ res.provincial < before.provincial

\* C8 witness: a monthly pay that annualizes to exactly 30,000, paid in July
C8_Witness ==
  /\ Returned("calculateIncomeTax")
  /\ req.province = "AB"
  /\ req.payDate = Date(2025, 7, 15)
  /\ req.taxableIncome = 250000
  /\ req.periodsPerYear = 12
  /\ res.federal = 14467
  /\ res.provincial = 3839

\* C3: in every period deductions.total is the sum of union, rrsp, other,
\* cpp1, cpp2, ei, federal and provincial, and net is gross.total less
\* deductions.total, to the cent; so over the periods paid so far the net
\* pay and the deductions add up to the wages plus the allowances.
C3_MoneyConserved ==
  ledger.i > 0 =>
    LET d == res.deductions
    IN  /\ d.total = d.union + d.rrsp + d.other + d.cpp1 + d.cpp2 + d.ei
                       + d.federal + d.provincial
        /\ res.net = res.gross.total - d.total
        /\ res.gross.total = res.gross.wage + res.gross.allowances
        /\ ledger.cumulativeNet + ledger.cumulativeDeductions
             = ledger.cumulativeGross + ledger.cumulativeAllowances

\* C3 witness: the last of the simulated periods, paid with per diem, after
\* the wages of the year have passed the CPP2 ceiling
C3_Witness ==
  /\ ledger.i = MaxPeriods
  /\ ledger.cumulativeGross > Dollars(YAMPE)
  /\ ledger.cumulativeAllowances > 0
  /\ res.gross.allowances > 0
  /\ res.deductions.cpp2 > 0
  /\ res.deductions.rrsp > 0

\* the sum of federal and provincial tax of a deduction breakdown
IncomeTaxOf(d) == d.federal + d.provincial

\* the request of the returned call with the RRSP-at-source flag set to a
FlagSet(a) ==
  calculateDeductions(req.grossWage, req.deductionInputs, req.ytdInputs,
                      req.payDate, req.province, req.frequency, a)

\* what C9 says of calculateStatutoryDeductions: cpp1, cpp2 and ei are those
\* of any other rrspAtSource amount and the tax is that of
\* max(0, grossWage - rrspAtSource)
C9_StatutoryPart ==
  Returned("calculateStatutoryDeductions") =>
    /\ \A r \in RrspAmounts :
         LET other == calculateStatutoryDeductions(req.grossWage,
                        req.ytdPensionable, req.ytdInsurable, req.payDate,
                        req.province, req.periodsPerYear, r)
         IN  /\ other.cpp.cpp1 = res.cpp.cpp1
             /\ other.cpp.cpp2 = res.cpp.cpp2
             /\ other.ei.ei = res.ei.ei
    /\ LET taxable == IF req.grossWage - req.rrspAtSource > 0
                      THEN req.grossWage - req.rrspAtSource ELSE 0
           tax == calculateIncomeTax(taxable, req.payDate, req.province,
                                     req.periodsPerYear)
       IN  /\ res.tax.taxableIncome = taxable
           /\ res.tax.federal = tax.federal
           /\ res.tax.provincial = tax.provincial

\* what C9 says of the flag of calculateDeductions: switching it leaves
\* union, rrsp, other, cpp1, cpp2 and ei unchanged
C9_FlagFrame ==
  Returned("calculateDeductions") =>
    LET on == FlagSet(TRUE)
        off == FlagSet(FALSE)
    IN  /\ <<on.union, on.rrsp, on.other, on.cpp1, on.cpp2, on.ei>>
             = <<off.union, off.rrsp, off.other, off.cpp1, off.cpp2, off.ei>>
        /\ res = FlagSet(req.rrspAtSource)
        /\ off.federal = calculateIncomeTax(Max(0, req.grossWage),
             req.payDate, req.province,
             PAY_FREQUENCY_CONFIG[req.frequency]).federal

RoundHalfUp(n, d) == (2 * n + d) \div (2 * d)

\* the gross pay breakdown of the returned call
GrossReturned == IF req.fn = "calculatePayroll" THEN res.gross ELSE res

\* the payroll inputs of the returned call
InputsOfCall ==
  IF req.fn = "calculatePayroll" THEN req.payrollInputs ELSE req.inputs

\* C10: calculateGrossPay pays straight time at rate + shiftPremium, time
\* and a half at 1.5 * rate + shiftPremium, double time at 2 * rate +
\* shiftPremium, travel at travelHours * travelRate; wage is the sum of
\* these four (the shift premium counted once per hour) and total is wage
\* plus allowances; rate 60 with 40 straight hours alone gives 2400.00.
C10_GrossPay ==
  (Returned("calculateGrossPay") \/ Returned("calculatePayroll")) =>
    LET i == InputsOfCall
        g == GrossReturned
    IN  /\ g.straightTimePay
             = RoundHalfUp(i.straightTime * (i.rate + i.shiftPremium), 4)
        /\ g.overtimeHalfPay
             = RoundHalfUp(i.overtimeHalf * (3 * i.rate + 2 * i.shiftPremium),
                           8)
        /\ g.overtimeDoublePay
             = RoundHalfUp(i.overtimeDouble * (2 * i.rate + i.shiftPremium),
                           4)
        /\ g.travelPay = RoundHalfUp(i.travelHours * i.travelRate, 4)
        /\ g.wage = g.straightTimePay + g.overtimeHalfPay
                      + g.overtimeDoublePay + g.travelPay
        /\ g.total = g.wage + i.perDiem * i.days
        /\ (i.rate = 6000 /\ i.straightTime = 160 /\ i.overtimeHalf = 0
              /\ i.overtimeDouble = 0 /\ i.shiftPremium = 0
              /\ i.travelHours = 0) => g.wage = 240000

\* C10 witness: every kind of hour worked, with a shift premium
C10_Witness ==
  /\ Returned("calculateGrossPay")
  /\ req.inputs.rate = 6543
  /\ req.inputs.straightTime = 150
  /\ req.inputs.overtimeHalf = 33
  /\ req.inputs.overtimeDouble = 17
  /\ req.inputs.shiftPremium = 333
  /\ req.inputs.travelHours = 10
  /\ req.inputs.travelRate = 3001
  /\ res.shiftPremiumPay > 0
  /\ res.wage = res.straightTimePay + res.overtimeHalfPay
                  + res.overtimeDoublePay + res.travelPay

\* the per diems and day counts a second call is made with
OtherPerDiems == {0, 7550, 15000}

OtherDays == {0, 3, 5}

\* the payroll inputs with another per diem and another number of days
WithPerDiem(inputs, perDiem, days) ==
  [inputs EXCEPT !.perDiem = perDiem, !.days = days]

\* the two results agree on every deduction and on the taxable wage, and
\* their net pays differ by the difference of their allowances
SameButAllowances(a, b) ==
  /\ a.deductions = b.deductions
  /\ a.gross.wage = b.gross.wage
  /\ a.net - b.net = a.gross.allowances - b.gross.allowances

\* C11: per-diem allowances are non-taxable and non-deductible: two
\* calculatePayroll calls whose inputs differ only in perDiem and days return
\* identical values for every deduction field and identical gross.wage, and
\* their net pay differs by exactly the difference in gross.allowances.
C11_PerDiemOnlyMovesNet ==
  Returned("calculatePayroll") =>
    \A perDiem \in OtherPerDiems, days \in OtherDays :
      SameButAllowances(
        calculatePayroll(WithPerDiem(req.payrollInputs, perDiem, days),
                         req.deductionInputs, req.ytdInputs),
        res)

\* C11 witness: a pay with a per diem, a taxable wage and deductions, whose
\* allowances differ from those of the calls it is compared with
C11_Witness ==
  /\ Returned("calculatePayroll")
  /\ res.gross.allowances = 75000
  /\ res.gross.wage > 0
  /\ res.deductions.federal > 0
  /\ res.deductions.cpp1 > 0
  /\ res.net = res.gross.wage + 75000 - res.deductions.total

\* some year-to-date accumulator is negative
NegativeYtd(ytdInputs) ==
  \/ ytdInputs.pensionableEarnings < 0
  \/ ytdInputs.insurableEarnings < 0
  \/ ytdInputs.cpp1Paid < 0
  \/ ytdInputs.cpp2Paid < 0
  \/ ytdInputs.eiPaid < 0

\* the rate is not positive or some hours are negative
BadRateOrHours(payrollInputs) ==
  \/ payrollInputs.rate <= 0
  \/ payrollInputs.straightTime < 0
  \/ payrollInputs.overtimeHalf < 0
  \/ payrollInputs.overtimeDouble < 0

\* a percentage of the deductions lies outside [0, 100]
BadPercent(deductionInputs) ==
  \/ deductionInputs.unionDuesPercent < 0
  \/ deductionInputs.unionDuesPercent > 100 * PERCENT_DEN
  \/ deductionInputs.rrspPercent < 0
  \/ deductionInputs.rrspPercent > 100 * PERCENT_DEN

\* C12: validatePayrollInputs returns isValid = false (with an error
\* message) exactly when the rate is <= 0, or some hours are negative, or the
\* union-dues or RRSP percentage is outside [0,100], or any year-to-date
\* accumulator (pensionable, insurable, CPP1 paid, CPP2 paid, EI paid) is
\* negative; the soft warnings never make isValid false on their own.
C12_InvalidExactlyWhen ==
  Returned("validatePayrollInputs") =>
    /\ (~res.isValid) <=>
         (BadRateOrHours(req.payrollInputs) \/ BadPercent(req.deductionInputs)
            \/ NegativeYtd(req.ytdInputs))
    /\ (~res.isValid) => Len(res.errors) > 0

\* C13: for inputs that validatePayrollInputs rejects because of a
\* non-positive rate or negative hours, calculatePayroll still returns a
\* complete result, and that result has gross.total >= 0 and net >= 0.
C13_RejectedStillNonNegative ==
  (/\ Returned("calculatePayroll")
   /\ BadRateOrHours(req.payrollInputs)
   /\ ~validatePayrollInputs(req.payrollInputs, req.deductionInputs,
                             req.ytdInputs).isValid) =>
    /\ DOMAIN res = {"gross", "deductions", "net"}
    /\ res.gross.total >= 0
    /\ res.net >= 0

\* the sum of a list of fractions
RECURSIVE SumOf(_)
SumOf(shares) ==
  IF Len(shares) = 0 THEN Num(0)
  ELSE FracAdd(shares[1], SumOf(Tail(shares)))

\* C14: load-share conservation: for every weight, every leg count >= 1,
\* every CoG offset (positive, negative, or beyond half the spacing) and
\* every spacing, the legLoads returned by calculateLoadDistribution has
\* exactly legCount entries and they sum to 1.
C14_SharesSumToOne ==
  Returned("calculateLoadDistribution") =>
    /\ Len(res.legLoads) = req.legs
    /\ SumOf(res.legLoads) = Num(1)

\* C14 witness: two legs with the CoG beyond half the spacing, so that one
\* share is negative and the other above 1
C14_Witness ==
  /\ Returned("calculateLoadDistribution")
  /\ req.legs = 2
  /\ req.spacing = Num(1000)
  /\ req.cogOffset = Num(1200)
  /\ res.legLoads[1].n < 0
  /\ res.legLoads[2] = Frac(17, 10)

\* legs = 2, spacing > 0 and |cogOffset| > 1
LeverCase(legs, cogOffset, spacing) ==
  /\ legs = 2
  /\ spacing.n > 0
  /\ (cogOffset.n > cogOffset.d \/ -cogOffset.n > cogOffset.d)

\* (spacing - 2 * offset) / (2 * spacing), which is
\* (spacing/2 - offset) / spacing
ShareAway(offset, spacing) ==
  FracDiv(FracSub(spacing, FracMul(Num(2), offset)),
          FracMul(Num(2), spacing))

\* the shares are those of the lever principle, and within half the spacing
\* the leg with the smaller computed distance carries the larger share
LeverShares(shares, cogOffset, spacing) ==
  /\ shares[1] = ShareAway(cogOffset, spacing)
  /\ shares[2] = ShareAway(FracNeg(cogOffset), spacing)
  /\ FracLt(FracMul(Num(2), FracAbs(cogOffset)), spacing) =>
       /\ cogOffset.n < 0 => FracLt(shares[2], shares[1])
       /\ cogOffset.n > 0 => FracLt(shares[1], shares[2])

CapacityCovers(maxTensionN, slingWLL, hitchType) ==
  FracLe(FracMul(maxTensionN, Frac(5, 4)),
         FracMul(FracMul(slingWLL,
                         CASE hitchType = "vertical" -> Num(1)
                           [] hitchType = "choker" -> Frac(3, 4)
                           [] hitchType = "basket" -> Num(2)),
                 Frac(980665, 100000)))

\* the same tension and sling judged with another hitch
AdequateWith(hitchType) ==
  calculateSafetyFactors(req.maxTensionN, req.slingWLL, hitchType)
    .isWLLAdequate

\* C16: for positive tension and sling WLL >= 0, calculateSafetyFactors
\* reports isWLLAdequate = true exactly when slingWLL * hitchFactor * 9.80665
\* >= 1.25 * maxTension (safety margin >= 25%); consequently adequate with a
\* choker hitch implies adequate with a vertical hitch, which implies
\* adequate with a basket hitch.
C16_AdequateExactlyWhen ==
  (/\ Returned("calculateSafetyFactors")
   /\ req.maxTensionN.n > 0
   /\ req.slingWLL.n >= 0) =>
    /\ res.isWLLAdequate
         <=> CapacityCovers(req.maxTensionN, req.slingWLL, req.hitchType)
    /\ res.isWLLAdequate <=> GeInt(res.safetyMargin, 25)
    /\ AdequateWith("choker") => AdequateWith("vertical")
    /\ AdequateWith("vertical") => AdequateWith("basket")

\* C16 witness: a 1000 kg sling in a vertical hitch under 7845.32 N, a
\* margin of exactly 25%: adequate, and inadequate with a choker hitch
C16_Witness ==
  /\ Returned("calculateSafetyFactors")
  /\ req.maxTensionN = Frac(784532, 100)
  /\ req.slingWLL = Num(1000)
  /\ req.hitchType = "vertical"
  /\ res.safetyMargin = Finite(Num(25))
  /\ res.isWLLAdequate
  /\ ~AdequateWith("choker")

\* the message is in the list
Has(messages, message) ==
  \E i \in 1..Len(messages) : messages[i] = message

\* an infinite margin, adequate, without a capacity warning
AdequateAtInfinity(safety) ==
  /\ safety.safetyMargin = PlusInfinity
  /\ safety.isWLLAdequate
  /\ ~Has(safety.warnings, "Insufficient sling capacity")
  /\ ~Has(safety.warnings,
          "Low safety margin - consider higher capacity slings")

\* C17: zero tension is treated as adequate: when the maximum tension passed
\* to calculateSafetyFactors is 0 (for example calculateRiggingAnalysis with
\* weight 0), the result has safetyMargin = +Infinity and isWLLAdequate =
\* true and carries no capacity warning, whatever the sling WLL and hitch
\* type.
C17_ZeroTensionAdequate ==
  /\ (Returned("calculateSafetyFactors") /\ req.maxTensionN = Num(0)) =>
       AdequateAtInfinity(res)
  /\ (Returned("calculateRiggingAnalysis") /\ req.inputs.weight = Num(0)) =>
       AdequateAtInfinity(res.safety)

\* C18: validateRiggingGeometry returns isValid = true for every input, no
\* matter how many warnings it emits, and therefore
\* calculateRiggingAnalysis.safetyCheck equals safety.isWLLAdequate for
\* every input.
C18_GeometryNeverFails ==
  /\ Returned("validateRiggingGeometry") => res.isValid
  /\ Returned("calculateRiggingAnalysis") =>
       res.safetyCheck = res.safety.isWLLAdequate

\* C18 witness: an analysis that passes the safety check although the
\* geometry draws four warnings
C18_Witness ==
  /\ Returned("calculateRiggingAnalysis")
  /\ Len(validateRiggingGeometry(req.inputs).warnings) = 4
  /\ res.safety.isWLLAdequate
  /\ res.safetyCheck

\* the seven warnings of the geometry validation, in the claimed order
GeometryMessages ==
  <<"Included angle too small", "Included angle too large", "Too many legs",
    "Load weight must be greater than zero",
    "Sling WLL must be greater than zero",
    "Wide angles significantly increase sling tension - consider reducing angle",
    "CoG offset exceeds half the pick spacing - load may be unstable">>

\* the condition of the k-th warning is violated by the inputs
Violates(inputs, k) ==
  CASE k = 1 -> inputs.angle < 10
    [] k = 2 -> inputs.angle > 150
    [] k = 3 -> inputs.legs > 4
    [] k = 4 -> inputs.weight.n <= 0
    [] k = 5 -> inputs.slingWLL.n <= 0
    [] k = 6 -> inputs.angle > 120
    [] k = 7 -> 2 * Abs(inputs.cogOffset.n) * inputs.spacing.d
                  > inputs.spacing.n * inputs.cogOffset.d

\* the warnings of the violated conditions among the k-th and later ones
RECURSIVE WarningsFrom(_, _)
WarningsFrom(inputs, k) ==
  IF k > Len(GeometryMessages) THEN <<>>
  ELSE (IF Violates(inputs, k) THEN <<GeometryMessages[k]>> ELSE <<>>)
         \o WarningsFrom(inputs, k + 1)

\* C19: validateRiggingGeometry emits exactly one warning for each violated
\* condition among angle < 10, angle > 150, legs > 4, weight <= 0, slingWLL
\* <= 0, angle > 120 and |cogOffset| > spacing/2, always in that order, and
\* none for the boundary values angle = 10, legs = 4 and |cogOffset| =
\* spacing/2; an input violating none of them yields an empty warning list,
\* and any angle above 150 yields both the 'too large' and the 'wide angle'
\* warning.
C19_OneWarningPerViolation ==
  Returned("validateRiggingGeometry") =>
    /\ res.warnings = WarningsFrom(req.inputs, 1)
    /\ req.inputs.angle = 10 => ~Has(res.warnings, GeometryMessages[1])
    /\ req.inputs.legs = 4 => ~Has(res.warnings, GeometryMessages[3])
    /\ FracMul(Num(2), FracAbs(req.inputs.cogOffset)) = req.inputs.spacing =>
         ~Has(res.warnings, GeometryMessages[7])
    /\ (\A k \in 1..7 : ~Violates(req.inputs, k)) => res.warnings = <<>>
    /\ req.inputs.angle > 150 =>
         /\ Has(res.warnings, GeometryMessages[2])
         /\ Has(res.warnings, GeometryMessages[6])

\* C19 witness: an angle of 151 with more than four legs, no weight, no WLL and the
\* CoG beyond half the spacing draws six warnings in the validator's order
C19_Witness ==
  /\ Returned("validateRiggingGeometry")
  /\ req.inputs.angle = 151
  /\ req.inputs.legs = MaxLegs
  /\ res.warnings
       = <<GeometryMessages[2], GeometryMessages[3], GeometryMessages[4],
           GeometryMessages[5], GeometryMessages[6], GeometryMessages[7]>>

\* the capacity warnings that go with a safety analysis
CapacityWarnings(safety) ==
  (IF safety.isWLLAdequate THEN <<>> ELSE <<"Insufficient sling capacity">>)
    \o (IF LtInt(safety.safetyMargin, 50)
          THEN <<"Low safety margin - consider higher capacity slings">>
          ELSE <<>>)

\* C20: the safety.warnings of calculateRiggingAnalysis are the capacity
\* warnings of calculateSafetyFactors first ('Insufficient sling capacity'
\* when inadequate, then 'Low safety margin' when the margin is below 50%)
\* followed by all geometry warnings in validator order; whenever the sling
\* is inadequate for a positive tension, 'Insufficient sling capacity' is
\* warnings[0], 'Low safety margin' is also present, and 'Use slings with
\* minimum ... kg WLL' is recommendations[0], ahead of any choker or basket
\* advisory.
C20_CapacityWarningsFirst ==
  Returned("calculateRiggingAnalysis") =>
    /\ res.safety.warnings
         = CapacityWarnings(res.safety) \o WarningsFrom(req.inputs, 1)
    /\ (~res.safety.isWLLAdequate /\ res.maxTensionKN.n > 0) =>
         /\ res.safety.warnings[1] = "Insufficient sling capacity"
         /\ res.safety.warnings[2]
              = "Low safety margin - consider higher capacity slings"
         /\ res.safety.recommendations[1] = "Use slings with minimum WLL"
         /\ Len(res.safety.recommendations)
              = IF req.inputs.hitchType = "vertical" THEN 1 ELSE 2

\* C20 witness: an inadequate choker-hitched sling at a wide angle: both
\* capacity warnings, then the geometry warning, and the minimum-WLL advice
\* ahead of the choker advisory
C20_Witness ==
  /\ Returned("calculateRiggingAnalysis")
  /\ req.inputs.hitchType = "choker"
  /\ res.maxTensionKN.n > 0
  /\ res.safety.warnings
       = <<"Insufficient sling capacity",
           "Low safety margin - consider higher capacity slings",
           GeometryMessages[6]>>
  /\ res.safety.recommendations
       = <<"Use slings with minimum WLL",
           "Choker hitch reduces capacity to 75% of vertical rating">>

\* the calls of the session so far
Calls == DOMAIN ledger.log

AngleFactorAt(includedAngle) == calculateAngleFactor(includedAngle).angleFactor

\* C22: calculateAngleFactor returns legAngle = includedAngle/2 with its sign
\* preserved, angleFactor = 1/cos(legAngle) and efficiency = 1/angleFactor,
\* and angleFactor is >= 1 (efficiency in (0,1]) for every included angle
\* accepted by the function, negative angles included; on (0,180) angleFactor
\* strictly increases with the angle.
C22_AngleFactorAtLeastOne ==
  Returned("calculateAngleFactor") =>
    /\ res.legAngle = Frac(req.includedAngle, 2)
    /\ res.angleFactor
         = FracDiv(Num(1), Frac(CosOfHalf[req.includedAngle], COS_DEN))
    /\ res.efficiency = FracDiv(Num(1), res.angleFactor)
    /\ FracGeInt(res.angleFactor, 1)
    /\ res.efficiency.n > 0
    /\ FracLeInt(res.efficiency, 1)
    /\ \A b \in AnglesAccepted :
         (0 < req.includedAngle /\ req.includedAngle < b /\ b < 180) =>
           FracLt(res.angleFactor, AngleFactorAt(b))

\* the smallest and the largest of the load shares
SmallestShare(shares) == MinOf(shares)

LargestShare(shares) == MaxOf(shares)

\* C27: isBalanced is only reported for genuinely balanced lifts: for weight
\* > 0, every leg count >= 1, every spacing and every CoG offset, whenever
\* calculateLoadDistribution returns isBalanced = true every leg's load
\* share is positive and the largest share is at most 1.10 times the
\* smallest share.
C27_BalancedMeansBalanced ==
  (/\ Returned("calculateLoadDistribution")
   /\ req.weight.n > 0
   /\ res.isBalanced) =>
    /\ \A i \in 1..req.legs : res.legLoads[i].n > 0
    /\ FracLe(LargestShare(res.legLoads),
              FracMul(Frac(11, 10), SmallestShare(res.legLoads)))

\* the same tension and hitch judged with a sling of another WLL
AdequateWithWLL(slingWLL) ==
  calculateSafetyFactors(req.maxTensionN, slingWLL, req.hitchType)
    .isWLLAdequate

\* C28: the WLL advice is self-consistent: for every positive tension T,
\* every hitch type h and every sling WLL w, if r = calculateSafetyFactors(T,
\* w, h) then a sling rated at r.recommendedWLL, and likewise one rated at
\* r.minRequiredWLL, is judged adequate for the same tension and hitch.
C28_AdvisedSlingIsAdequate ==
  (Returned("calculateSafetyFactors") /\ req.maxTensionN.n > 0) =>
    /\ AdequateWithWLL(res.recommendedWLL)
    /\ AdequateWithWLL(res.minRequiredWLL)

\* increases of the taxable income of a period, in cents
IncomeSteps == {1, 100, 12345, 100000, 500000}

\* the withholding on another taxable income, the rest of the call the same
TaxAt(taxableIncome) ==
  calculateIncomeTax(taxableIncome, req.payDate, req.province,
                     req.periodsPerYear)

\* the taxable incomes compared with the one of the call
HigherIncomes ==
  {t \in TaxableIncomes \cup {req.taxableIncome + d : d \in IncomeSteps} :
     t >= req.taxableIncome}

\* C29: withholding is monotone in income: for a fixed pay date, province
\* and pay frequency, the federal and the provincial per-period tax returned
\* by calculateIncomeTax are non-decreasing in the per-period taxable income,
\* across every bracket threshold and across the federal
\* basic-personal-amount phase-out range.
C29_TaxMonotoneInIncome ==
  Returned("calculateIncomeTax") =>
    \A t \in HigherIncomes :
      /\ TaxAt(t).federal >= res.federal
      /\ TaxAt(t).provincial >= res.provincial

\* a call whose annualized income lies at the low end of the phase-out range,
\* with tax withheld on both sides, compared with an income inside the range
C29_Witness ==
  /\ Returned("calculateIncomeTax")
  /\ res.annualizedIncome = Dollars(FEDERAL_BPA_THRESHOLD_LOW)
  /\ req.province = "AB"
  /\ res.federal > 0
  /\ res.provincial > 0
  /\ \E t \in HigherIncomes :
       /\ t * req.periodsPerYear > Dollars(FEDERAL_BPA_THRESHOLD_LOW)
       /\ t * req.periodsPerYear < Dollars(FEDERAL_BPA_THRESHOLD_HIGH)
       /\ TaxAt(t).federal > res.federal

\* a period of the contribution year has been computed
PeriodComputed == pc = "year" /\ ledger.i >= 1

\* two exact amounts are the same amount
SameAmount(a, b) == QSub(a, b).w = 0 /\ QSub(a, b).n = 0

\* C23: CPP1 is charged on earnings up to the YMPE of 71,300 less the 3,500
\* basic exemption: when the caller starts the year with ytdPensionable = 0,
\* adds each period's gross wage after the period, and every period's wage
\* exceeds the per-period exemption, then once cumulative gross wages have
\* reached 71,300 the cumulative CPP1 pensionable base returned by
\* calculateCPP equals 67,800, and the CPP1 contributions sum to 4,034.10 up
\* to a cent of rounding per period.
C23_Cpp1BaseReachesMaximum ==
  (/\ PeriodComputed
   /\ ledger.aboveExemption
   /\ ledger.ytdPensionable >= Dollars(YMPE)) =>
    /\ SameAmount(ledger.cpp1Base, QInt(Dollars(YMPE - CPP_BASIC_EXEMPTION)))
    /\ ledger.cpp1Paid >= 403410 - ledger.i
    /\ ledger.cpp1Paid <= 403410 + ledger.i

\* C24: CPP2 band accounting over a year: after any sequence of periods with
\* non-negative wages added to ytdPensionable, the sum of the cpp2Base
\* values returned by calculateCPP equals max(0, min(total wages, 81,200) -
\* 71,300); it never exceeds 9,900, depends on the total only, and is 0 in
\* every period that starts with ytdPensionable >= 81,200.
C24_Cpp2BandOverYear ==
  PeriodComputed =>
    /\ ledger.cpp2Base
         = Max(0, Min(ledger.ytdPensionable, Dollars(YAMPE)) - Dollars(YMPE))
    /\ ledger.cpp2Base <= Dollars(YAMPE - YMPE)
    /\ req.ytdPensionable >= Dollars(YAMPE) => res.cpp.cpp2Base = 0

\* the band is filled over more than one period, the last of which starts
\* inside the band
C24_Witness ==
  /\ PeriodComputed
  /\ ledger.i >= 3
  /\ req.ytdPensionable > Dollars(YMPE)
  /\ res.cpp.cpp2Base > 0
  /\ res.cpp.cpp2Base < ledger.cpp2Base
  /\ ledger.cpp2Base < Dollars(YAMPE - YMPE)

\* C25: EI cap over a year: after any sequence of periods with non-negative
\* wages added to ytdInsurable, the sum of the insurable bases returned by
\* calculateEI equals min(total wages, 65,700); it never exceeds the annual
\* maximum and depends on the total only.
C25_EiCapOverYear ==
  PeriodComputed =>
    /\ ledger.eiBase = Min(ledger.ytdInsurable, Dollars(EI_MIE))
    /\ ledger.eiBase <= Dollars(EI_MIE)

\* the period in which the maximum is reached: only a part of its wage is
\* insurable
C25_Witness ==
  /\ PeriodComputed
  /\ ledger.i >= 2
  /\ ledger.ytdInsurable > Dollars(EI_MIE)
  /\ res.ei.insurableEarnings > 0
  /\ res.ei.insurableEarnings < req.grossWage

\* C26: the CPP1 annual ceiling is never exceeded: after any sequence of
\* periods with non-negative wages added to ytdPensionable, at any of the
\* four pay frequencies, the sum of the CPP1 pensionable bases returned by
\* calculateCPP is at most 67,800, and in each single period the CPP1 base
\* plus the CPP2 base is at most that period's earnings.
C26_Cpp1CeilingOverYear ==
  PeriodComputed =>
    /\ QLeInt(ledger.cpp1Base, Dollars(YMPE - CPP_BASIC_EXEMPTION))
    /\ QLeInt(QAdd(res.cpp.pensionableEarnings, QInt(res.cpp.cpp2Base)),
              req.grossWage)

\* a period that pays into both plans, after which the CPP1 bases of the
\* year are within a period's exemption of the ceiling
C26_Witness ==
  /\ PeriodComputed
  /\ ledger.i >= 2
  /\ ~QLeInt(res.cpp.pensionableEarnings, 0)
  /\ res.cpp.cpp2Base > 0
  /\ ~QLeInt(ledger.cpp1Base, Dollars(YMPE - CPP_BASIC_EXEMPTION) - 30000)

\* the entry under the key is the versioned form of the hook's value
StorageHoldsValue ==
  ledger.item = [version |-> ledger.version, data |-> res.value]

\* C30: useLocalStorage keeps state and storage in agreement: after any
\* sequence of setValue and removeValue calls on a mounted hook (with
\* debounceMs = 0 or > 0), once every pending debounce timer has fired and
\* no write error has been reported, localStorage holds for the key exactly
\* {__version: version, data: v} where v is the hook's current value, or
\* holds no entry and the value is initialValue if the last call was
\* removeValue.
C30_StateAndStorageAgree ==
  (/\ pc = "mounted"
   /\ req # Pending
   /\ ledger.timer = Null
   /\ ~ledger.reported
   /\ res.error = Null) =>
    \/ StorageHoldsValue
    \/ /\ req.fn = "removeValue"
       /\ ledger.item = Null
       /\ res.value = initialValue

====
